---- MODULE Spec2Model ----
(***************************************************************************)
(* Gateway lifecycle supervisor of src/src/server.js: the held child       *)
(* reference (gatewayProc), the in-flight start marker (gatewayStarting),  *)
(* startGateway / ensureGatewayRunning / restartGateway, the readiness     *)
(* wait and the child exit / error callbacks.                              *)
(*                                                                         *)
(* One action is one turn of the Node.js event loop: the synchronous code  *)
(* of a handler up to its next await, followed by the promise reactions    *)
(* (microtasks) that this code makes runnable. The fetches of one polling  *)
(* round of waitForGatewayReady are one action: the loop over the          *)
(* endpoints reads and writes nothing but its own position.                *)
(*                                                                         *)
(* A state shows what the last turn finished: a call that returned         *)
(* (pc = "done", with its result), a start sequence that settled           *)
(* (pc = "ok" or "fail") and a child whose exit or error callback ran      *)
(* (state = "exited" or "failed") are visible in the state that follows    *)
(* and are gone after the next turn.                                       *)
(***************************************************************************)
EXTENDS Integers, Sequences, FiniteSets, TLC

\* ---------------------------------------------------------------- bounds
NCallers == 2          \* calls of ensureGatewayRunning()/restartGateway() in progress at once
MaxProcs == 2          \* gateway children alive at once
MaxSeqs == 2           \* records for start sequences in flight

Callers == 1..NCallers
ProcIds == 1..MaxProcs
SeqIds == 1..MaxSeqs
Tokens == {"t1", "t2"}
\* Contents of the persisted configuration file. "garbage": not parseable as
\* JSON; a token: a parseable file with that value at gateway.auth.token, "t2"
\* standing for every value that is not the in-memory token (a missing field
\* included).
CfgContents == {"absent", "garbage"} \cup Tokens
\* exit codes a runCmd() result can carry (127: the command could not be launched)
ExitCodes == {0, 1, 127}

VARIABLES
    OPENCLAW_GATEWAY_TOKEN, \* in-memory token, resolved at process start
    cfgFile,                \* persisted configuration file at configPath()
    gatewayProc,            \* held child reference: 0 (null) or an index of procs
    gatewayStarting,        \* in-flight marker: 0 (null) or a sequence id
    seqs,                   \* the start sequences, by id
    procs,                  \* the gateway children: procs[1] is the child spawned
                            \* last, procs[2], ... the older ones that have not
                            \* exited, in the order of their age
    callers,                \* the calls of ensureGatewayRunning/restartGateway
    cmds,                   \* the runCmd() invocations that have not completed
    processEnv,             \* process.env.OPENCLAW_GATEWAY_TOKEN as the platform supplies it
    tokenFile,              \* the file gateway.token in STATE_DIR
    stateDir,               \* what the file system lets the wrapper do in STATE_DIR
    wrapper,                \* the wrapper process: down, or up with its token resolved
    log,                    \* the lines the last step wrote with console.log/error
    SETUP_PASSWORD,         \* the setup password of line 21 (empty: not set)
    runCmdCall,             \* one invocation of runCmd(): its process and its promise
    readyWait               \* one invocation of waitForGatewayReady()

vars == <<OPENCLAW_GATEWAY_TOKEN, cfgFile, gatewayProc, gatewayStarting,
          seqs, procs, callers, cmds, processEnv, tokenFile, stateDir, wrapper,
          log, SETUP_PASSWORD, runCmdCall, readyWait>>

\* The supervisor runs inside one wrapper process, whose token is resolved.
supVars == <<cfgFile, gatewayProc, gatewayStarting, seqs, procs, callers, cmds>>
bootVars == <<processEnv, tokenFile, stateDir, wrapper>>

\* A call not in progress. kind, pc, result, joined (the sequence the call
\* awaits or awaited) model the call; hadChild records whether a child was
\* held when a restartGateway() call began, until that call's grace delay ends;
\* killThrew whether the kill("SIGTERM") of the last turn threw (lines 461-464);
\* reply what the router did with the request that made the call. site, path
\* and authorization are the request as the turn that received it saw it
\* (an HTTP request or an upgrade, req.path, the Authorization header as
\* line 495 splits it); via is the handler that awaits the call; fwdAuth the
\* Authorization header of the request forwarded to the gateway.
NoCall == [kind |-> "none", pc |-> "idle", result |-> "none", joined |-> 0,
           hadChild |-> FALSE, killThrew |-> FALSE, reply |-> "none",
           via |-> "none", site |-> "none", path |-> <<>>,
           authorization |-> [scheme |-> "", encoded |-> <<>>], fwdAuth |-> <<>>]

\* No sequence. pc is the await the async function is suspended at, spawns the
\* number of childProcess.spawn() calls the sequence has made, setArg the value
\* the sequence passed to "config set gateway.auth.token", launchFailed whether
\* the error callback of the child it spawned has run, syncCode the exit code
\* of the config-set command when the last turn logged it (line 364).
NoSeq == [pc |-> "free", reason |-> "none", spawns |-> 0, setArg |-> "none",
          launchFailed |-> FALSE, syncCode |-> {}]

\* No child. A child is "alive" from childProcess.spawn() until its exit or
\* error event has been delivered. termSent: kill("SIGTERM") was called on it;
\* cfgRead: the token startGateway read back from the file before the spawn;
\* tokenArg: the --token argument; gpBefore: the value of gatewayProc that the
\* spawn overwrote; wasHeld: gatewayProc was this child when its exit or error
\* callback ran.
NoProc == [state |-> "free", termSent |-> FALSE, cfgRead |-> "none",
           tokenArg |-> "none", gpBefore |-> 0, wasHeld |-> FALSE]

\* An environment variable that is not set; a file that does not exist.
\* writer: who wrote the file, the wrapper (line 64) or someone else.
NoEnv == [set |-> FALSE, value |-> <<>>]
NoFile == [exists |-> FALSE, content |-> <<>>, writer |-> "none"]

\* No runCmd() in progress. proc: the state of the spawned process as its
\* events have shown it; out: the chunks collected in `out`; promise and value:
\* the state of the promise returned and what it was resolved with;
\* closeCode: the code that the close event carried (Null: null, a signal
\* ended the process).
Null == -1
NoRun == [proc |-> "none", out |-> <<>>, promise |-> "none",
          value |-> [code |-> Null, output |-> <<>>], closeCode |-> {}]

\* No waitForGatewayReady() in progress. pc: the await the function is
\* suspended at; endpoint: the index of the endpoint being fetched; elapsed:
\* Date.now() - start in milliseconds; received: the statuses of the HTTP
\* responses that the probes of this invocation have received; result: what
\* the function returned.
NoWait == [pc |-> "idle", endpoint |-> 0, elapsed |-> 0, received |-> {},
           result |-> "none"]

\* process.env.SETUP_PASSWORD?.trim() (line 21): not set, or a password.
Passwords == {<<>>, <<"p">>}

\* detectAndFixCorruptedConfig() has run before the supervisor is used, so the
\* standard configuration file is absent or parseable at this point.
SupInit ==
    /\ OPENCLAW_GATEWAY_TOKEN = "t1"
    /\ cfgFile \in CfgContents \ {"garbage"}
    /\ gatewayProc = 0
    /\ gatewayStarting = 0
    /\ seqs = [s \in SeqIds |-> NoSeq]
    /\ procs = [k \in ProcIds |-> NoProc]
    /\ callers = [c \in Callers |-> NoCall]
    /\ cmds = {}
    /\ processEnv = NoEnv
    /\ tokenFile = [exists |-> TRUE, content |-> OPENCLAW_GATEWAY_TOKEN, writer |-> "wrapper"]
    /\ stateDir = "rw"
    /\ wrapper = [pc |-> "up", from |-> "generated"]
    /\ log = {}
    /\ SETUP_PASSWORD \in Passwords
    /\ runCmdCall = NoRun
    /\ readyWait = NoWait

\* The supervisor is studied in a wrapper whose setup password is set.
Init == SupInit /\ SETUP_PASSWORD = <<"p">>

isConfigured(cfg) == cfg # "absent"

Settled(pc) == pc \in {"ok", "fail"}
InFlight(pc) == pc \in {"sync", "probe", "sleep"}
Outcome(q) == IF q.pc = "ok" THEN "ok" ELSE q.reason

\* What the turns before the last one finished is gone.
Current(cs) ==
    [c \in Callers |-> IF cs[c].pc = "done" THEN NoCall
                       ELSE [cs[c] EXCEPT !.killThrew = FALSE,
                                          !.site = "none",
                                          !.path = <<>>,
                                          !.authorization = NoCall.authorization]]
CurrentSeqs(ss) ==
    [s \in SeqIds |-> IF Settled(ss[s].pc) THEN NoSeq
                      ELSE [ss[s] EXCEPT !.syncCode = {}]]
Alive(p) == p.state = "alive"
Older(ps) == SelectSeq([i \in 1..(MaxProcs - 1) |-> ps[i + 1]], Alive)
CurrentProcs(ps) ==
    [k \in ProcIds |->
        IF k = 1 THEN (IF Alive(ps[1]) THEN ps[1] ELSE NoProc)
        ELSE IF k - 1 <= Len(Older(ps)) THEN Older(ps)[k - 1]
        ELSE NoProc]

\* The supervisor state a synchronous stretch of code reads and writes.
Sup == [gp |-> gatewayProc, gs |-> gatewayStarting, seqs |-> CurrentSeqs(seqs),
        procs |-> CurrentProcs(procs), callers |-> Current(callers), cmds |-> cmds]

Min(S) == CHOOSE x \in S : \A y \in S : x <= y
FreeSeqs(st) == {s \in SeqIds : st.seqs[s].pc = "free"}
FreeProcs(st) == {k \in ProcIds : st.procs[k].state = "free"}

\* The children once a new child has been spawned: the new one first.
Spawned(ps, new) ==
    LET old == (IF Alive(ps[1]) THEN <<ps[1]>> ELSE <<>>) \o Older(ps)
    IN [k \in ProcIds |->
           IF k = 1 THEN new
           ELSE IF k - 1 <= Len(old) THEN old[k - 1]
           ELSE NoProc]

\* ------------------------------------------------------------- the code

\* startGateway() that goes to the verification without the config-set command.
startGatewayBegin_noSync(st, cfg, s) ==
    IF st.gp # 0
    THEN [st EXCEPT !.seqs[s] = [NoSeq EXCEPT !.pc = "probe"]]
    ELSE IF ~isConfigured(cfg)
    THEN [st EXCEPT !.seqs[s] = [NoSeq EXCEPT !.pc = "fail", !.reason = "notConfigured"]]
    ELSE [st EXCEPT !.seqs[s] = [NoSeq EXCEPT !.pc = "sync"]]

\* startGateway() up to its first await (lines 347-362), run by the async
\* function that ensureGatewayRunning() creates: sequence s. The two
\* mkdirSync calls find STATE_DIR and WORKSPACE_DIR creatable.
startGatewayBegin(st, cfg, s) ==
    IF st.gp # 0
    THEN [st EXCEPT !.seqs[s] = [NoSeq EXCEPT !.pc = "probe"]]
    ELSE IF ~isConfigured(cfg)
    THEN [st EXCEPT !.seqs[s] = [NoSeq EXCEPT !.pc = "fail", !.reason = "notConfigured"]]
    ELSE [st EXCEPT !.seqs[s] = [NoSeq EXCEPT !.pc = "sync",
                                              !.setArg = OPENCLAW_GATEWAY_TOKEN],
                    !.cmds = @ \cup {[cmd |-> "configSet", by |-> s]}]

\* config?.gateway?.auth?.token of a parsed configuration (line 376).
configToken(cfg) == IF cfg \in Tokens THEN cfg ELSE "undefined"

\* startGateway() without the comparison of the token read back (line 382).
startGateway_noVerify(st, s, code, cfg, tok) ==
    IF cfg \in {"absent", "garbage"}
    THEN [st EXCEPT !.seqs[s].pc = "fail",
                    !.seqs[s].syncCode = {code},
                    !.seqs[s].reason = "configUnreadable"]
    ELSE [st EXCEPT !.seqs[s].pc = "probe",
                    !.seqs[s].syncCode = {code},
                    !.seqs[s].spawns = @ + 1,
                    !.procs = Spawned(@, [state |-> "alive",
                                          termSent |-> FALSE,
                                          cfgRead |-> configToken(cfg),
                                          tokenArg |-> tok,
                                          gpBefore |-> st.gp,
                                          wasHeld |-> FALSE]),
                    !.gp = 1]

\* startGateway() that throws when the config-set command exits non-zero.
startGateway_abortsOnSyncFailure(st, s, code, cfg, tok) ==
    IF code # 0
    THEN [st EXCEPT !.seqs[s].pc = "fail",
                    !.seqs[s].syncCode = {code},
                    !.seqs[s].reason = "tokenMismatch"]
    ELSE IF cfg \in {"absent", "garbage"}
    THEN [st EXCEPT !.seqs[s].pc = "fail",
                    !.seqs[s].syncCode = {code},
                    !.seqs[s].reason = "configUnreadable"]
    ELSE IF configToken(cfg) # tok
    THEN [st EXCEPT !.seqs[s].pc = "fail",
                    !.seqs[s].syncCode = {code},
                    !.seqs[s].reason = "tokenMismatch"]
    ELSE [st EXCEPT !.seqs[s].pc = "probe",
                    !.seqs[s].syncCode = {code},
                    !.seqs[s].spawns = @ + 1,
                    !.procs = Spawned(@, [state |-> "alive",
                                          termSent |-> FALSE,
                                          cfgRead |-> configToken(cfg),
                                          tokenArg |-> tok,
                                          gpBefore |-> st.gp,
                                          wasHeld |-> FALSE]),
                    !.gp = 1]

\* startGateway() from the completion of the config-set command with exit code
\* code to its end (lines 364-434): the code is logged, then the read-back
\* verification and the spawn.
startGateway(st, s, code, cfg, tok) ==
    IF cfg \in {"absent", "garbage"}
    THEN [st EXCEPT !.seqs[s].pc = "fail",
                    !.seqs[s].syncCode = {code},
                    !.seqs[s].reason = "configUnreadable"]
    ELSE IF configToken(cfg) # tok
    THEN [st EXCEPT !.seqs[s].pc = "fail",
                    !.seqs[s].syncCode = {code},
                    !.seqs[s].reason = "tokenMismatch"]
    ELSE [st EXCEPT !.seqs[s].pc = "probe",
                    !.seqs[s].syncCode = {code},
                    !.seqs[s].spawns = @ + 1,
                    !.procs = Spawned(@, [state |-> "alive",
                                          termSent |-> FALSE,
                                          cfgRead |-> configToken(cfg),
                                          tokenArg |-> tok,
                                          gpBefore |-> st.gp,
                                          wasHeld |-> FALSE]),
                    !.gp = 1]

\* One polling round of waitForGatewayReady(): the for loop over the
\* endpoints (lines 329-341). answered: the fetch of some endpoint received a
\* response, of whatever status; otherwise every fetch of the round threw.
waitForGatewayReadyProbe(st, s, answered) ==
    IF answered
    THEN [st EXCEPT !.seqs[s].pc = "ok"]
    ELSE [st EXCEPT !.seqs[s].pc = "sleep"]

\* waitForGatewayReady() whose loop condition never ends the loop.
waitForGatewayReadySleep_noDeadline(st, s, expired) ==
    [st EXCEPT !.seqs[s].pc = "probe"]

\* A readiness wait that signals the held child when it gives up.
waitForGatewayReadySleep_killsChild(st, s, expired) ==
    IF expired
    THEN LET st1 == IF st.gp # 0
                    THEN [st EXCEPT !.procs[st.gp].termSent = TRUE, !.gp = 0]
                    ELSE st
         IN [st1 EXCEPT !.seqs[s].pc = "fail",
                        !.seqs[s].reason = "timeout"]
    ELSE [st EXCEPT !.seqs[s].pc = "probe"]

\* The sleep(250) of waitForGatewayReady() is over and the loop condition is
\* evaluated (lines 328, 341-344); expired: Date.now() - start has reached
\* timeoutMs. ensureGatewayRunning() throws when the wait returns false
\* (lines 443-445).
waitForGatewayReadySleep(st, s, expired) ==
    IF expired
    THEN [st EXCEPT !.seqs[s].pc = "fail",
                    !.seqs[s].reason = "timeout"]
    ELSE [st EXCEPT !.seqs[s].pc = "probe"]

\* ensureGatewayRunning() without the test of gatewayStarting (line 439).
ensureGatewayRunning_noMarker(st, cfg, c) ==
    IF ~isConfigured(cfg)
    THEN [st EXCEPT !.callers[c].pc = "done",
                    !.callers[c].result = "notConfigured"]
    ELSE IF st.gp # 0
    THEN [st EXCEPT !.callers[c].pc = "done",
                    !.callers[c].result = "ok"]
    ELSE LET s == Min(FreeSeqs(st))
             st1 == [startGatewayBegin(st, cfg, s) EXCEPT !.gs = s]
         IN [st1 EXCEPT !.callers[c].pc = "await",
                        !.callers[c].joined = st1.gs]

\* ensureGatewayRunning() without the test of gatewayProc (line 438).
ensureGatewayRunning_noFastPath(st, cfg, c) ==
    IF ~isConfigured(cfg)
    THEN [st EXCEPT !.callers[c].pc = "done",
                    !.callers[c].result = "notConfigured"]
    ELSE LET s == Min(FreeSeqs(st))
             st1 == IF st.gs = 0
                    THEN [startGatewayBegin(st, cfg, s) EXCEPT !.gs = s]
                    ELSE st
         IN [st1 EXCEPT !.callers[c].pc = "await",
                        !.callers[c].joined = st1.gs]

\* ensureGatewayRunning() without the test of isConfigured() (line 437).
ensureGatewayRunning_noConfigCheck(st, cfg, c) ==
    IF st.gp # 0
    THEN [st EXCEPT !.callers[c].pc = "done",
                    !.callers[c].result = "ok"]
    ELSE LET s == Min(FreeSeqs(st))
             st1 == IF st.gs = 0
                    THEN [startGatewayBegin(st, cfg, s) EXCEPT !.gs = s]
                    ELSE st
         IN [st1 EXCEPT !.callers[c].pc = "await",
                        !.callers[c].joined = st1.gs]

\* ensureGatewayRunning() up to its await (lines 436-450), for caller c.
ensureGatewayRunning(st, cfg, c) ==
    IF ~isConfigured(cfg)
    THEN [st EXCEPT !.callers[c].pc = "done",
                    !.callers[c].result = "notConfigured"]
    ELSE IF st.gp # 0
    THEN [st EXCEPT !.callers[c].pc = "done",
                    !.callers[c].result = "ok"]
    ELSE LET s == Min(FreeSeqs(st))
             st1 == IF st.gs = 0
                    THEN [startGatewayBegin(st, cfg, s) EXCEPT !.gs = s]
                    ELSE st
         IN [st1 EXCEPT !.callers[c].pc = "await",
                        !.callers[c].joined = st1.gs]

\* The marker cleared by .then() instead of .finally(): on success only.
Finally_onSuccessOnly(st, s) ==
    IF s # 0 /\ Settled(st.seqs[s].pc)
    THEN [st EXCEPT !.gs = IF st.seqs[s].pc = "ok" THEN 0 ELSE @,
                    !.callers = [c \in Callers |->
                        IF st.callers[c].pc = "await" /\ st.callers[c].joined = s
                        THEN [st.callers[c] EXCEPT !.pc = "done",
                                                   !.result = Outcome(st.seqs[s])]
                        ELSE st.callers[c]]]
    ELSE st

\* The reactions that run once the async function of sequence s has finished:
\* .finally() clears the marker (lines 446-448), then every caller awaiting
\* the sequence resumes with its outcome (lines 450-451).
Finally(st, s) ==
    IF s # 0 /\ Settled(st.seqs[s].pc)
    THEN [st EXCEPT !.gs = 0,
                    !.callers = [c \in Callers |->
                        IF st.callers[c].pc = "await" /\ st.callers[c].joined = s
                        THEN [st.callers[c] EXCEPT !.pc = "done",
                                                   !.result = Outcome(st.seqs[s])]
                        ELSE st.callers[c]]]
    ELSE st

\* restartGateway() that also drops the in-flight marker.
restartGateway_clearsMarker(st, c, killThrows) ==
    LET st1 == IF st.gp # 0
               THEN [st EXCEPT !.procs[st.gp].termSent = ~killThrows,
                               !.callers[c].killThrew = killThrows,
                               !.gp = 0]
               ELSE st
    IN [st1 EXCEPT !.gs = 0,
                   !.callers[c].pc = "pkill",
                   !.cmds = @ \cup {[cmd |-> "pkill", by |-> c]}]

\* restartGateway() without the assignment gatewayProc = null (line 465).
restartGateway_keepsReference(st, c, killThrows) ==
    LET st1 == IF st.gp # 0
               THEN [st EXCEPT !.procs[st.gp].termSent = ~killThrows,
                               !.callers[c].killThrew = killThrows]
               ELSE st
    IN [st1 EXCEPT !.callers[c].pc = "pkill",
                   !.cmds = @ \cup {[cmd |-> "pkill", by |-> c]}]

\* restartGateway() that lets the error of kill() escape.
restartGateway_rethrows(st, c, killThrows) ==
    IF st.gp # 0 /\ killThrows
    THEN [st EXCEPT !.callers[c].killThrew = TRUE,
                    !.callers[c].pc = "done",
                    !.callers[c].result = "killError"]
    ELSE LET st1 == IF st.gp # 0
                    THEN [st EXCEPT !.procs[st.gp].termSent = TRUE, !.gp = 0]
                    ELSE st
         IN [st1 EXCEPT !.callers[c].pc = "pkill",
                        !.cmds = @ \cup {[cmd |-> "pkill", by |-> c]}]

\* restartGateway() up to its first await (lines 454-472). killThrows: the
\* kill("SIGTERM") of line 461 throws, so the child gets no signal.
restartGateway(st, c, killThrows) ==
    LET st1 == IF st.gp # 0
               THEN [st EXCEPT !.procs[st.gp].termSent = ~killThrows,
                               !.callers[c].killThrew = killThrows,
                               !.gp = 0]
               ELSE st
    IN [st1 EXCEPT !.callers[c].pc = "pkill",
                   !.cmds = @ \cup {[cmd |-> "pkill", by |-> c]}]

\* restartGateway() from the completion of pkill with exit code code to
\* sleep(1500) (lines 473-479): the code is logged.
restartGatewayGrace(st, c, code) ==
    [st EXCEPT !.callers[c].pc = "grace"]

\* An exit callback that only logs.
onExit_keepsReference(st, k) ==
    [st EXCEPT !.procs[k].state = "exited",
               !.procs[k].wasHeld = (st.gp = k)]

\* The exit callback of child k (lines 430-433).
onExit(st, k) ==
    [st EXCEPT !.procs[k].state = "exited",
               !.procs[k].wasHeld = (st.gp = k),
               !.gp = 0]

\* The error callback of child k (lines 425-428). The child spawned last is
\* the child of the sequence in flight, if that sequence has spawned.
onError(st, k) ==
    LET st1 == [st EXCEPT !.procs[k].state = "failed",
                          !.procs[k].wasHeld = (st.gp = k),
                          !.gp = 0]
    IN IF k = 1 /\ st.gs # 0 /\ st.seqs[st.gs].spawns = 1
       THEN [st1 EXCEPT !.seqs[st.gs].launchFailed = TRUE]
       ELSE st1

\* ------------------------------------------------------------ the turns

\* A call that has left restartGateway's grace delay no longer carries what
\* it found when it began.
Tidy(cs) ==
    [c \in Callers |->
        IF cs[c].pc \in {"await", "done"} THEN [cs[c] EXCEPT !.hadChild = FALSE]
        ELSE cs[c]]

\* What the proxy middleware (lines 1410-1421) and the upgrade handler (lines
\* 1437-1452) do once their await of ensureGatewayRunning() is over: they
\* reject the request (status 503, or socket.destroy()) when the call threw,
\* and forward it otherwise, without looking at the value returned.
proxyReply(result) ==
    IF result \in {"ok", "notConfigured"} THEN "forwarded" ELSE "rejected"

\* An upgrade that would forward what the client sent.
stampAuthorization_httpOnly(via, token) ==
    IF via = "proxy" THEN <<"Bearer ", token>> ELSE <<>>

\* The Authorization header given to a forwarded request: the proxyReq
\* callback sets it on an HTTP request (line 1394), the headers option of
\* proxy.ws() on an upgrade (lines 1449-1451).
stampAuthorization(via, token) ==
    IF via \in {"proxy", "upgrade"} THEN <<"Bearer ", token>> ELSE <<>>

\* What /setup/api/run (lines 858-865, 1093-1098) and /setup/api/signal-restart
\* (lines 1318-1327) answer once their call is over: JSON, or 500 when it threw.
handlerReply(result) ==
    IF result \in {"ok", "notConfigured"} THEN "json" ELSE "500"

\* The requests whose call of ensureGatewayRunning() or restartGateway() is
\* over are answered.
Respond(cs) ==
    [c \in Callers |->
        IF cs[c].pc = "done" /\ cs[c].kind = "ensure" /\ cs[c].via \in {"proxy", "upgrade"}
        THEN [cs[c] EXCEPT !.reply = proxyReply(cs[c].result),
                           !.fwdAuth = IF proxyReply(cs[c].result) = "forwarded"
                                       THEN stampAuthorization(cs[c].via, OPENCLAW_GATEWAY_TOKEN)
                                       ELSE <<>>]
        ELSE IF cs[c].pc = "done" /\ cs[c].kind \in {"ensure", "restart"}
        THEN [cs[c] EXCEPT !.reply = handlerReply(cs[c].result)]
        ELSE cs[c]]

\* The supervisor state at the end of a turn.
Commit(st) ==
    /\ gatewayProc' = st.gp
    /\ gatewayStarting' = st.gs
    /\ seqs' = st.seqs
    /\ procs' = st.procs
    /\ callers' = Respond(Tidy(st.callers))
    /\ cmds' = st.cmds
    /\ UNCHANGED <<bootVars, log, SETUP_PASSWORD, runCmdCall, readyWait>>

FreeCallers(st) == {c \in Callers : st.callers[c].kind = "none"}

\* A new call of the given kind enters the server.
Issue(st, c, kind) ==
    [st EXCEPT !.callers[c] = [NoCall EXCEPT !.kind = kind,
                                             !.pc = "called",
                                             !.via = IF kind = "ensure" THEN "proxy" ELSE "none",
                                             !.hadChild = (kind = "restart" /\ st.gp # 0)]]

\* n calls of ensureGatewayRunning() made one after the other in one turn.
RECURSIVE EnsureAll(_, _, _)
EnsureAll(st, cfg, n) ==
    IF n = 0 THEN st
    ELSE LET c == Min(FreeCallers(st))
         IN EnsureAll(ensureGatewayRunning(Issue(st, c, "ensure"), cfg, c), cfg, n - 1)

\* Inbound requests call ensureGatewayRunning() n times within one turn. Each
\* of the three call sites (/setup/api/run, the proxy middleware, the upgrade
\* handler) makes the call only after isConfigured() has returned true. The
\* requests are taken to be proxied ones: /setup/api/run differs in its reply
\* only.
EnsureCalls(n) ==
    /\ isConfigured(cfgFile)
    /\ n <= Cardinality(FreeCallers(Sup))
    /\ FreeSeqs(Sup) # {}
    /\ LET st == EnsureAll(Sup, cfgFile, n)
       IN Commit(Finally(st, st.gs))
    /\ UNCHANGED <<OPENCLAW_GATEWAY_TOKEN, cfgFile>>

\* The config-set command of sequence s completes with an exit code, having
\* left the configuration file as newCfg (as it was, when the command could
\* not be launched: code 127); startGateway() resumes.
SyncDone(s, code, newCfg) ==
    /\ seqs[s].pc = "sync"
    /\ code = 127 => newCfg = cfgFile
    /\ configToken(newCfg) = OPENCLAW_GATEWAY_TOKEN => FreeProcs(Sup) # {}
    /\ cfgFile' = newCfg
    /\ LET st0 == [Sup EXCEPT !.cmds = @ \ {[cmd |-> "configSet", by |-> s]}]
           st == startGateway(st0, s, code, newCfg, OPENCLAW_GATEWAY_TOKEN)
       IN Commit(Finally(st, s))
    /\ UNCHANGED OPENCLAW_GATEWAY_TOKEN

\* The fetches of one polling round of sequence s complete.
ProbeDone(s, answered) ==
    /\ seqs[s].pc = "probe"
    /\ Commit(Finally(waitForGatewayReadyProbe(Sup, s, answered), s))
    /\ UNCHANGED <<OPENCLAW_GATEWAY_TOKEN, cfgFile>>

\* The timer of sleep(250) of sequence s fires.
SleepDone(s, expired) ==
    /\ seqs[s].pc = "sleep"
    /\ Commit(Finally(waitForGatewayReadySleep(Sup, s, expired), s))
    /\ UNCHANGED <<OPENCLAW_GATEWAY_TOKEN, cfgFile>>

\* A handler calls restartGateway(): /setup/api/run after onboarding, or
\* /setup/api/signal-restart.
RestartCall(killThrows) ==
    /\ FreeCallers(Sup) # {}
    /\ killThrows => gatewayProc # 0
    /\ LET c == Min(FreeCallers(Sup))
       IN Commit(restartGateway(Issue(Sup, c, "restart"), c, killThrows))
    /\ UNCHANGED <<OPENCLAW_GATEWAY_TOKEN, cfgFile>>

\* The pkill command of restart call c completes with an exit code.
PkillDone(c, code) ==
    /\ callers[c].pc = "pkill"
    /\ LET st0 == [Sup EXCEPT !.cmds = @ \ {[cmd |-> "pkill", by |-> c]}]
       IN Commit(restartGatewayGrace(st0, c, code))
    /\ UNCHANGED <<OPENCLAW_GATEWAY_TOKEN, cfgFile>>

\* The timer of sleep(1500) of restart call c fires: restartGateway() returns
\* ensureGatewayRunning() (line 481).
GraceDone(c) ==
    /\ callers[c].pc = "grace"
    /\ FreeSeqs(Sup) # {}
    /\ LET st == ensureGatewayRunning(Sup, cfgFile, c)
       IN Commit(Finally(st, st.gs))
    /\ UNCHANGED <<OPENCLAW_GATEWAY_TOKEN, cfgFile>>

\* Child k exits (on its own or after a signal): its exit event is delivered.
ChildExit(k) ==
    /\ Alive(Sup.procs[k])
    /\ Commit(onExit(Sup, k))
    /\ UNCHANGED <<OPENCLAW_GATEWAY_TOKEN, cfgFile>>

\* Child k could not be launched: its error event is delivered.
ChildError(k) ==
    /\ Alive(Sup.procs[k])
    /\ ~Sup.procs[k].termSent
    /\ Commit(onError(Sup, k))
    /\ UNCHANGED <<OPENCLAW_GATEWAY_TOKEN, cfgFile>>

\* A router that forwards whatever reaches it.
notConfiguredReply_forwardsAll(site, setupPath) == "forwarded"

\* What the proxy middleware (lines 1405-1407, 1421) and the upgrade handler
\* (lines 1433-1436) do with a request while there is no configuration file.
notConfiguredReply(site, setupPath) ==
    IF site = "upgrade" THEN "rejected"
    ELSE IF setupPath THEN "forwarded"
    ELSE "redirect"

\* A request reaches the proxy middleware (lines 1403-1422) or the upgrade
\* handler (lines 1432-1436) while there is no configuration file: neither
\* calls ensureGatewayRunning(). setupPath: req.path starts with "/setup".
ProxyUnconfigured(site, setupPath) ==
    /\ ~isConfigured(cfgFile)
    /\ FreeCallers(Sup) # {}
    /\ site = "upgrade" => ~setupPath
    /\ LET c == Min(FreeCallers(Sup))
           reply == notConfiguredReply(site, setupPath)
       IN Commit([Sup EXCEPT !.callers[c] =
                     [NoCall EXCEPT !.kind = "request",
                                    !.pc = "done",
                                    !.reply = reply,
                                    !.fwdAuth = IF reply = "forwarded"
                                                THEN stampAuthorization("proxy", OPENCLAW_GATEWAY_TOKEN)
                                                ELSE <<>>]])
    /\ UNCHANGED <<OPENCLAW_GATEWAY_TOKEN, cfgFile>>

\* A reset that also stops the gateway it has made unconfigured.
resetSetup_stopsGateway(st) ==
    IF st.gp # 0
    THEN [st EXCEPT !.procs[st.gp].termSent = TRUE, !.gp = 0]
    ELSE st

\* What the handler of POST /setup/api/reset does to the supervisor (lines
\* 1148-1155): nothing, it calls fs.rmSync() and answers.
resetSetup(st) == st

\* POST /setup/api/reset removes the configuration file (lines 1145-1156).
ResetSetup ==
    /\ cfgFile # "absent"
    /\ cfgFile' = "absent"
    /\ Commit(resetSetup(Sup))
    /\ UNCHANGED OPENCLAW_GATEWAY_TOKEN

\* The onboarding command run by POST /setup/api/run writes a configuration file.
ConfigWritten(newCfg) ==
    /\ cfgFile = "absent"
    /\ newCfg \in Tokens
    /\ cfgFile' = newCfg
    /\ Commit(Sup)
    /\ UNCHANGED OPENCLAW_GATEWAY_TOKEN

Next ==
    \/ \E n \in Callers : EnsureCalls(n)
    \/ \E s \in SeqIds, code \in ExitCodes, newCfg \in CfgContents : SyncDone(s, code, newCfg)
    \/ \E s \in SeqIds, answered \in BOOLEAN : ProbeDone(s, answered)
    \/ \E s \in SeqIds, expired \in BOOLEAN : SleepDone(s, expired)
    \/ \E killThrows \in BOOLEAN : RestartCall(killThrows)
    \/ \E c \in Callers, code \in ExitCodes : PkillDone(c, code)
    \/ \E c \in Callers : GraceDone(c)
    \/ \E k \in ProcIds : ChildExit(k)
    \/ \E k \in ProcIds : ChildError(k)
    \/ ResetSetup
    \/ \E newCfg \in Tokens : ConfigWritten(newCfg)
    \/ \E site \in {"http", "upgrade"}, setupPath \in BOOLEAN : ProxyUnconfigured(site, setupPath)

Spec == Init /\ [][Next]_vars

\* The pkill command and the grace timer of every restartGateway() call complete.
RestartFairSpec ==
    /\ Spec
    /\ \A c \in Callers :
          /\ WF_vars(\E code \in ExitCodes : PkillDone(c, code))
          /\ WF_vars(GraceDone(c))

\* Every command, fetch and timer the supervisor waits for completes, and
\* time passes: a readiness wait that keeps polling finds its deadline reached
\* at some evaluation of the loop condition.
FairSpec ==
    /\ Spec
    /\ \A s \in SeqIds :
          /\ WF_vars(\E code \in ExitCodes, newCfg \in CfgContents : SyncDone(s, code, newCfg))
          /\ WF_vars(\E answered \in BOOLEAN : ProbeDone(s, answered))
          /\ WF_vars(\E expired \in BOOLEAN : SleepDone(s, expired))
          /\ SF_vars(SleepDone(s, TRUE))
    /\ \A c \in Callers :
          /\ WF_vars(\E code \in ExitCodes : PkillDone(c, code))
          /\ WF_vars(GraceDone(c))

\* ------------------------------------------------- token resolution
\* resolveGatewayToken() (lines 31-70), run once by each wrapper process.
\* Strings are sequences of characters: "a" and "b" stand for hex digits.

Whitespace == {" ", "\n"}

\* Values of the environment variable and contents of the token file that the
\* wrapper may find; tokens that crypto.randomBytes(32).toString("hex") may give.
\* crypto.randomBytes(32).toString("hex") gives 64 hex digits (line 60).
HexToken(x, y) == [i \in 1..64 |-> IF i % 2 = 1 THEN x ELSE y]
EnvValues == {<<>>, <<" ">>, <<"a">>, <<" ", "a", "\n">>, <<"a", " ", "b">>,
              HexToken("b", "b")}
FileContents == {<<>>, <<"\n">>, <<"b">>, <<"b", "\n">>}
Generated == {HexToken("a", "b"), HexToken("b", "a")}
DirModes == {"rw", "ro", "none"}

\* String.prototype.trim()
RECURSIVE trimStart(_)
trimStart(str) ==
    IF str # <<>> /\ Head(str) \in Whitespace THEN trimStart(Tail(str)) ELSE str
RECURSIVE trimEnd(_)
trimEnd(str) ==
    IF str # <<>> /\ str[Len(str)] \in Whitespace
    THEN trimEnd(SubSeq(str, 1, Len(str) - 1))
    ELSE str
trim(str) == trimEnd(trimStart(str))

\* envTok of line 33 is truthy; readFileSync of line 50 does not throw.
envSupplied(env) == env.set /\ trim(env.value) # <<>>
readable(file, dir) == file.exists /\ dir # "none"

\* resolveGatewayToken() that looks at the persisted file first.
resolveGatewayToken_fileFirst(env, file, dir, generated) ==
    IF readable(file, dir) /\ trim(file.content) # <<>>
    THEN [token |-> trim(file.content), file |-> file, from |-> "file"]
    ELSE IF envSupplied(env)
    THEN [token |-> trim(env.value),
          file |-> IF dir = "rw"
                   THEN [exists |-> TRUE, content |-> trim(env.value), writer |-> "wrapper"]
                   ELSE file,
          from |-> "env"]
    ELSE [token |-> generated,
          file |-> IF dir = "rw"
                   THEN [exists |-> TRUE, content |-> generated, writer |-> "wrapper"]
                   ELSE file,
          from |-> "generated"]

\* resolveGatewayToken() that never reads the persisted file.
resolveGatewayToken_alwaysGenerates(env, file, dir, generated) ==
    IF envSupplied(env)
    THEN [token |-> trim(env.value), file |-> file, from |-> "env"]
    ELSE [token |-> generated,
          file |-> IF dir = "rw"
                   THEN [exists |-> TRUE, content |-> generated, writer |-> "wrapper"]
                   ELSE file,
          from |-> "generated"]

\* resolveGatewayToken() that lets the error of the write escape.
resolveGatewayToken_throwsOnWriteError(env, file, dir, generated) ==
    IF envSupplied(env)
    THEN [token |-> trim(env.value), file |-> file, from |-> "env"]
    ELSE IF readable(file, dir) /\ trim(file.content) # <<>>
    THEN [token |-> trim(file.content), file |-> file, from |-> "file"]
    ELSE IF dir = "rw"
    THEN [token |-> generated,
          file |-> [exists |-> TRUE, content |-> generated, writer |-> "wrapper"],
          from |-> "generated"]
    ELSE [token |-> <<>>, file |-> file, from |-> "none"]

\* resolveGatewayToken() (lines 31-70): the token, the token file as the call
\* leaves it, and the source the token came from (as logged). mkdirSync and
\* writeFileSync (lines 63-64) succeed when STATE_DIR is writable.
\* resolveGatewayToken() that takes the content of the file as it is.
resolveGatewayToken_noTrim(env, file, dir, generated) ==
    IF envSupplied(env)
    THEN [token |-> trim(env.value), file |-> file, from |-> "env"]
    ELSE IF readable(file, dir) /\ file.content # <<>>
    THEN [token |-> file.content, file |-> file, from |-> "file"]
    ELSE [token |-> generated,
          file |-> IF dir = "rw"
                   THEN [exists |-> TRUE, content |-> generated, writer |-> "wrapper"]
                   ELSE file,
          from |-> "generated"]

resolveGatewayToken(env, file, dir, generated) ==
    IF envSupplied(env)
    THEN [token |-> trim(env.value), file |-> file, from |-> "env"]
    ELSE IF readable(file, dir) /\ trim(file.content) # <<>>
    THEN [token |-> trim(file.content), file |-> file, from |-> "file"]
    ELSE [token |-> generated,
          file |-> IF dir = "rw"
                   THEN [exists |-> TRUE, content |-> generated, writer |-> "wrapper"]
                   ELSE file,
          from |-> "generated"]

\* String.prototype.slice(0, n)
slice(str, n) == SubSeq(str, 1, IF Len(str) < n THEN Len(str) ELSE n)

\* The lines that resolveGatewayToken() writes with a token in them (lines
\* 40-41, 53, 61): a line is the sequence of its fixed text and the characters
\* interpolated into it.
resolveGatewayTokenLog(env, file, dir, generated) ==
    IF envSupplied(env)
    THEN {<<"[token]   First 16 chars: ">> \o slice(trim(env.value), 16) \o <<"...">>,
          <<"[token]   Full token: ">> \o trim(env.value)}
    ELSE IF readable(file, dir) /\ trim(file.content) # <<>>
    THEN {<<"[token]   First 16 chars: ">> \o slice(trim(file.content), 8) \o <<"...">>}
    ELSE {<<"[token] Generating new random token (">> \o slice(generated, 8) \o <<"...)">>}

\* The line written once the token is resolved (line 74).
finalTokenLog(tok) ==
    {<<"[token] Final resolved token: ">> \o slice(tok, 16)
         \o <<"... (len: ", ToString(Len(tok)), ")">>}

\* configToken || 'null' (lines 385, 387); an absent field is the empty value.
orNull(cfgTok) == IF cfgTok = <<>> THEN <<"n", "u", "l", "l">> ELSE cfgTok

\* The message of the error thrown on a mismatch (lines 386-388).
mismatchMessage(tok, cfgTok) ==
    <<"Token mismatch: wrapper has ">> \o slice(tok, 16)
        \o <<"... but config has ">> \o slice(orNull(cfgTok), 16) \o <<"...">>

\* The lines that the token verification of startGateway() writes (lines
\* 378-392) when the configuration file holds the token cfgTok, and the text that
\* the proxy middleware returns when the verification throws (line 1416).
tokenVerificationLog(tok, cfgTok) ==
    {<<"[gateway]   Wrapper: ">> \o slice(tok, 16) \o <<"... (len: ", ToString(Len(tok)), ")">>,
     <<"[gateway]   Config:  ">> \o slice(cfgTok, 16)
         \o <<"... (len: ", ToString(Len(cfgTok)), ")">>}
    \cup (IF cfgTok # tok
          THEN {<<"[gateway] Token mismatch detected!">>,
                <<"[gateway]   Full wrapper: ">> \o tok,
                <<"[gateway]   Full config:  ">> \o orNull(cfgTok),
                <<"[gateway] ERROR: Token verification failed: Error: ">>
                    \o mismatchMessage(tok, cfgTok),
                <<"Gateway not ready: Error: ">> \o mismatchMessage(tok, cfgTok)}
          ELSE {<<"[gateway] Token verification PASSED">>})

\* The platform and the volume as a first wrapper process may find them.
BootInit ==
    /\ OPENCLAW_GATEWAY_TOKEN = <<>>
    /\ wrapper = [pc |-> "down", from |-> "none"]
    /\ processEnv \in {NoEnv} \cup {[set |-> TRUE, value |-> v] : v \in EnvValues}
    /\ tokenFile \in {NoFile} \cup
           {[exists |-> TRUE, content |-> v, writer |-> "other"] : v \in FileContents}
    /\ stateDir \in DirModes
    /\ cfgFile \in CfgContents
    /\ gatewayProc = 0
    /\ gatewayStarting = 0
    /\ seqs = [s \in SeqIds |-> NoSeq]
    /\ procs = [k \in ProcIds |-> NoProc]
    /\ callers = [c \in Callers |-> NoCall]
    /\ cmds = {}
    /\ log = {}
    /\ SETUP_PASSWORD = <<"p">>
    /\ runCmdCall = NoRun
    /\ readyWait = NoWait

\* detectAndFixCorruptedConfig() that leaves the standard file alone.
detectAndFixCorruptedConfig_keeps(cfg, dir) == cfg

\* What detectAndFixCorruptedConfig() does to the standard configuration
\* file (lines 285-302), which is in STATE_DIR: a file that exists and whose
\* content JSON.parse() rejects is removed, unless fs.rmSync() throws (lines
\* 294-300); existsSync() does not see a file in a directory without access.
detectAndFixCorruptedConfig(cfg, dir) ==
    IF cfg = "garbage" /\ dir = "rw" THEN "absent" ELSE cfg

\* A wrapper process starts: module initialisation resolves the token (line
\* 72) and checks the configuration files (line 78).
WrapperStart(generated) ==
    /\ wrapper.pc = "down"
    /\ LET r == resolveGatewayToken(processEnv, tokenFile, stateDir, generated)
       IN /\ OPENCLAW_GATEWAY_TOKEN' = r.token
          /\ tokenFile' = r.file
          /\ wrapper' = [pc |-> "up", from |-> r.from]
          /\ log' = resolveGatewayTokenLog(processEnv, tokenFile, stateDir, generated)
                        \cup finalTokenLog(r.token)
    /\ cfgFile' = detectAndFixCorruptedConfig(cfgFile, stateDir)
    /\ UNCHANGED <<processEnv, stateDir, SETUP_PASSWORD, runCmdCall, readyWait>>
    /\ UNCHANGED <<gatewayProc, gatewayStarting, seqs, procs, callers, cmds>>

\* The wrapper process ends (SIGTERM handler, lines 1455-1463, or a crash).
WrapperExit ==
    /\ wrapper.pc = "up"
    /\ wrapper' = [pc |-> "down", from |-> "none"]
    /\ OPENCLAW_GATEWAY_TOKEN' = <<>>
    /\ log' = {}
    /\ UNCHANGED <<processEnv, tokenFile, stateDir, SETUP_PASSWORD, runCmdCall, readyWait>>
    /\ UNCHANGED supVars

\* A start sequence of the running wrapper reaches the token verification
\* (lines 374-394) and finds cfgTok in the configuration file.
TokenVerification(cfgTok) ==
    /\ wrapper.pc = "up"
    /\ log' = tokenVerificationLog(OPENCLAW_GATEWAY_TOKEN, cfgTok)
    /\ UNCHANGED <<OPENCLAW_GATEWAY_TOKEN, processEnv, tokenFile, stateDir, wrapper,
                   SETUP_PASSWORD, runCmdCall, readyWait>>
    /\ UNCHANGED supVars

\* The platform sets, changes or removes the variable for the next process.
EnvChanged(env) ==
    /\ wrapper.pc = "down"
    /\ env # processEnv
    /\ processEnv' = env
    /\ log' = {}
    /\ UNCHANGED <<OPENCLAW_GATEWAY_TOKEN, tokenFile, stateDir, wrapper,
                   SETUP_PASSWORD, runCmdCall, readyWait>>
    /\ UNCHANGED supVars

\* The volume is replaced: the token file is gone.
TokenFileLost ==
    /\ tokenFile.exists
    /\ tokenFile' = NoFile
    /\ log' = {}
    /\ UNCHANGED <<OPENCLAW_GATEWAY_TOKEN, processEnv, stateDir, wrapper,
                   SETUP_PASSWORD, runCmdCall, readyWait>>
    /\ UNCHANGED supVars

\* The permissions of STATE_DIR change.
StateDirChanged(mode) ==
    /\ mode # stateDir
    /\ stateDir' = mode
    /\ log' = {}
    /\ UNCHANGED <<OPENCLAW_GATEWAY_TOKEN, processEnv, tokenFile, wrapper,
                   SETUP_PASSWORD, runCmdCall, readyWait>>
    /\ UNCHANGED supVars

BootNext ==
    \/ \E generated \in Generated : WrapperStart(generated)
    \/ WrapperExit
    \/ \E cfgTok \in {<<>>, OPENCLAW_GATEWAY_TOKEN, HexToken("c", "d")} :
           TokenVerification(cfgTok)
    \/ \E env \in {NoEnv} \cup {[set |-> TRUE, value |-> v] : v \in EnvValues} : EnvChanged(env)
    \/ TokenFileLost
    \/ \E mode \in DirModes : StateDirChanged(mode)

BootSpec == BootInit /\ [][BootNext]_vars

\* ---------------------------------------------------------- the router
\* The express routes that reach the supervisor, requireSetupAuth (lines
\* 484-508), the proxy middleware (lines 1403-1422) and the upgrade handler
\* (lines 1432-1453). A path is the sequence of its parts.

RunPath == <<"/setup", "/api/run">>
SignalRestartPath == <<"/setup", "/api/signal-restart">>
\* the two routes, a path under /setup that no route matches, another path
Paths == {RunPath, SignalRestartPath, <<"/setup", "/x">>, <<"/chat">>}

\* Authorization headers that a client may send, as
\* `const [scheme, encoded] = header.split(" ")` (line 495) finds them; encoded
\* stands for the text that the base64 decoding of line 500 yields.
NoHeader == [scheme |-> "", encoded |-> <<>>]
Headers ==
    {NoHeader,
     [scheme |-> "Basic", encoded |-> <<"u", ":", "p">>],
     [scheme |-> "Basic", encoded |-> <<"u", ":", "q">>],
     [scheme |-> "Bearer", encoded |-> <<"u", ":", "p">>]}

\* String.prototype.startsWith, indexOf (-1: not found), slice(n)
startsWith(str, prefix) ==
    Len(str) >= Len(prefix) /\ SubSeq(str, 1, Len(prefix)) = prefix
indexOf(str, ch) ==
    IF \E i \in 1..Len(str) : str[i] = ch
    THEN Min({i \in 1..Len(str) : str[i] = ch}) - 1
    ELSE -1
sliceFrom(str, n) == SubSeq(str, n + 1, Len(str))

\* The password that a header carries (lines 500-502).
headerPassword(header) ==
    LET decoded == header.encoded
        idx == indexOf(decoded, ":")
    IN IF idx >= 0 THEN sliceFrom(decoded, idx + 1) ELSE <<>>

\* requireSetupAuth that lets every request pass when no password is set.
requireSetupAuth_openWhenUnset(password, header) ==
    IF password = <<>> THEN "next"
    ELSE IF header.scheme # "Basic" \/ header.encoded = <<>> THEN "401"
    ELSE IF headerPassword(header) # password THEN "401"
    ELSE "next"

\* requireSetupAuth (lines 484-508): the status it answers with, or "next".
requireSetupAuth(password, header) ==
    IF password = <<>> THEN "500"
    ELSE IF header.scheme # "Basic" \/ header.encoded = <<>> THEN "401"
    ELSE IF headerPassword(header) # password THEN "401"
    ELSE "next"

\* The request that caller slot c stands for is answered with a status.
Answer(st, c, status) ==
    [st EXCEPT !.callers[c].pc = "done", !.callers[c].reply = status]

\* The handler of the request calls ensureGatewayRunning().
CallEnsure(st, cfg, c, via) ==
    ensureGatewayRunning([st EXCEPT !.callers[c].kind = "ensure",
                                    !.callers[c].via = via], cfg, c)

\* The handler of the request calls restartGateway().
CallRestart(st, c, killThrows) ==
    restartGateway([st EXCEPT !.callers[c].kind = "restart",
                              !.callers[c].via = "none",
                              !.callers[c].hadChild = (st.gp # 0)], c, killThrows)

\* server.on("upgrade") up to its await (lines 1432-1438).
upgradeHandler(st, cfg, c) ==
    IF ~isConfigured(cfg) THEN Answer(st, c, notConfiguredReply("upgrade", FALSE))
    ELSE CallEnsure(st, cfg, c, "upgrade")

\* The proxy middleware up to its await (lines 1403-1411), or to proxy.web()
\* (line 1421) when it awaits nothing.
proxyMiddleware(st, cfg, c, path) ==
    IF isConfigured(cfg) THEN CallEnsure(st, cfg, c, "proxy")
    ELSE LET reply == notConfiguredReply("http", startsWith(path, <<"/setup">>))
         IN [Answer(st, c, reply) EXCEPT
                !.callers[c].fwdAuth = IF reply = "forwarded"
                                       THEN stampAuthorization("proxy", OPENCLAW_GATEWAY_TOKEN)
                                       ELSE <<>>]

\* POST /setup/api/run up to its first await (lines 856-879): the call of
\* ensureGatewayRunning(), or the onboarding command.
runHandler(st, cfg, c) ==
    IF isConfigured(cfg) THEN CallEnsure(st, cfg, c, "run")
    ELSE [st EXCEPT !.callers[c].pc = "onboard",
                    !.cmds = @ \cup {[cmd |-> "onboard", by |-> c]}]

\* A request passes through express (or reaches the upgrade handler): the
\* state at the end of the turn that received it.
route(st, cfg, c, site, path, header, killThrows) ==
    LET auth == requireSetupAuth(SETUP_PASSWORD, header)
    IN IF site = "upgrade" THEN upgradeHandler(st, cfg, c)
       ELSE IF path = SignalRestartPath THEN CallRestart(st, c, killThrows)
       ELSE IF path = RunPath /\ auth # "next" THEN Answer(st, c, auth)
       ELSE IF path = RunPath THEN runHandler(st, cfg, c)
       ELSE proxyMiddleware(st, cfg, c, path)

\* The wrapper receives a request: an HTTP request, or an upgrade of a
\* connection (whose handler reads neither the path nor the header).
Request(site, path, header, killThrows) ==
    /\ FreeCallers(Sup) # {}
    /\ FreeSeqs(Sup) # {}
    /\ site = "upgrade" => (path = <<"/chat">> /\ header = NoHeader)
    /\ killThrows => (site = "http" /\ path = SignalRestartPath /\ gatewayProc # 0)
    /\ LET c == Min(FreeCallers(Sup))
           st0 == [Sup EXCEPT !.callers[c] = [NoCall EXCEPT !.kind = "request",
                                                           !.pc = "called",
                                                           !.site = site,
                                                           !.path = path,
                                                           !.authorization = header]]
           st == route(st0, cfgFile, c, site, path, header, killThrows)
       IN Commit(Finally(st, st.gs))
    /\ UNCHANGED <<OPENCLAW_GATEWAY_TOKEN, cfgFile>>

\* The onboarding command of /setup/api/run completes with an exit code,
\* having left the configuration file as newCfg. On success the handler sets
\* the gateway options with further commands and calls restartGateway() (lines
\* 883-1087); otherwise it answers 500 (line 1089).
OnboardDone(c, code, newCfg, killThrows) ==
    /\ callers[c].pc = "onboard"
    /\ code = 127 => newCfg = cfgFile
    /\ newCfg # "garbage"
    /\ killThrows => gatewayProc # 0
    /\ cfgFile' = newCfg
    /\ LET st0 == [Sup EXCEPT !.cmds = @ \ {[cmd |-> "onboard", by |-> c]}]
       IN IF code = 0 /\ isConfigured(newCfg)
          THEN Commit(CallRestart(st0, c, killThrows))
          ELSE Commit(Answer(st0, c, "500"))
    /\ UNCHANGED OPENCLAW_GATEWAY_TOKEN

RouterInit == SupInit

RouterNext ==
    \/ \E site \in {"http", "upgrade"}, path \in Paths, header \in Headers,
          killThrows \in BOOLEAN : Request(site, path, header, killThrows)
    \/ \E c \in Callers, code \in ExitCodes, newCfg \in CfgContents, killThrows \in BOOLEAN :
          OnboardDone(c, code, newCfg, killThrows)
    \/ \E s \in SeqIds, code \in ExitCodes, newCfg \in CfgContents : SyncDone(s, code, newCfg)
    \/ \E s \in SeqIds, answered \in BOOLEAN : ProbeDone(s, answered)
    \/ \E s \in SeqIds, expired \in BOOLEAN : SleepDone(s, expired)
    \/ \E c \in Callers, code \in ExitCodes : PkillDone(c, code)
    \/ \E c \in Callers : GraceDone(c)
    \/ \E k \in ProcIds : ChildExit(k)
    \/ \E k \in ProcIds : ChildError(k)

RouterSpec == RouterInit /\ [][RouterNext]_vars

\* ------------------------------------------------------------ runCmd
\* runCmd() (lines 832-854): one child process, its data, error and close
\* events, and the promise that runCmd() returns.

MaxOut == 3            \* chunks of output that a command writes
Chunks == {"o", "e"}   \* a chunk of stdout, a chunk of stderr
\* the code of a close event: null when a signal ended the process
CloseCodes == {Null, 0, 1}
SpawnErrorText == "[spawn error]"

\* resolve(): only the first call settles the promise.
resolve(r, v) ==
    IF r.promise = "pending"
    THEN [r EXCEPT !.promise = "fulfilled", !.value = v]
    ELSE r

\* The executor of line 833. spawnThrows: childProcess.spawn() (line 834)
\* throws instead of returning a process (an argument it rejects, or an error
\* of the operating system that Node reports synchronously); an exception in
\* the executor rejects the promise.
runCmd(spawnThrows) ==
    IF spawnThrows
    THEN [NoRun EXCEPT !.promise = "rejected"]
    ELSE [NoRun EXCEPT !.proc = "running", !.promise = "pending"]

\* The data callbacks (lines 844-845).
runCmdOnData(r, d) == [r EXCEPT !.out = Append(@, d)]

\* The error callback (lines 847-850).
runCmdOnError(r) ==
    LET out == Append(r.out, SpawnErrorText)
    IN resolve([r EXCEPT !.out = out, !.proc = "errored"],
               [code |-> 127, output |-> out])

\* The close callback (line 852): code ?? 0.
runCmdOnClose(r, code) ==
    resolve([r EXCEPT !.proc = IF r.proc = "errored" THEN "closedAfterError" ELSE "closed",
                      !.closeCode = {code}],
            [code |-> IF code = Null THEN 0 ELSE code, output |-> r.out])

RunCmdInit == Init /\ cfgFile = "absent"

RunCmdUnchanged ==
    UNCHANGED <<OPENCLAW_GATEWAY_TOKEN, supVars, bootVars, log, SETUP_PASSWORD, readyWait>>

\* runCmd() is called; the process of the call before, if any, has closed.
RunCmdCalled(spawnThrows) ==
    /\ runCmdCall.proc \notin {"running", "errored"}
    /\ runCmdCall' = runCmd(spawnThrows)
    /\ RunCmdUnchanged

\* The process writes a chunk to stdout or stderr.
RunCmdData(d) ==
    /\ runCmdCall.proc \in {"running", "errored"}
    /\ Len(SelectSeq(runCmdCall.out, LAMBDA x : x \in Chunks)) < MaxOut
    /\ runCmdCall' = runCmdOnData(runCmdCall, d)
    /\ RunCmdUnchanged

\* The process emits its error event.
RunCmdError ==
    /\ runCmdCall.proc = "running"
    /\ runCmdCall' = runCmdOnError(runCmdCall)
    /\ RunCmdUnchanged

\* The process emits its close event.
RunCmdClose(code) ==
    /\ runCmdCall.proc \in {"running", "errored"}
    /\ runCmdCall' = runCmdOnClose(runCmdCall, code)
    /\ RunCmdUnchanged

RunCmdNext ==
    \/ \E spawnThrows \in BOOLEAN : RunCmdCalled(spawnThrows)
    \/ \E d \in Chunks : RunCmdData(d)
    \/ RunCmdError
    \/ \E code \in CloseCodes : RunCmdClose(code)

RunCmdSpec == RunCmdInit /\ [][RunCmdNext]_vars

\* ------------------------------------------------------------- shutdown
\* The SIGTERM handler of the wrapper (lines 1455-1463) on top of the
\* supervisor. A wrapper that has exited is "down": the other variables keep
\* what the process held when it exited, and its children live on.

\* A SIGTERM handler that exits at once.
onSigterm_exitOnly(st, killThrows) == st

\* The SIGTERM handler up to process.exit(0): kill("SIGTERM") on the held
\* child, if any, inside try/catch. killThrows: the call throws, so the child
\* gets no signal.
onSigterm(st, killThrows) ==
    IF st.gp # 0
    THEN [st EXCEPT !.procs[st.gp].termSent = ~killThrows]
    ELSE st

\* The wrapper process receives SIGTERM: the handler runs and the process
\* exits with process.exit(0) (line 1462).
WrapperSigterm(killThrows) ==
    /\ wrapper.pc = "up"
    /\ killThrows => gatewayProc # 0
    /\ LET st == onSigterm(Sup, killThrows)
       IN /\ gatewayProc' = st.gp
          /\ gatewayStarting' = st.gs
          /\ seqs' = st.seqs
          /\ procs' = st.procs
          /\ callers' = st.callers
          /\ cmds' = st.cmds
    /\ wrapper' = [pc |-> "down",
                   from |-> IF killThrows THEN "SIGTERM, kill threw" ELSE "SIGTERM"]
    /\ UNCHANGED <<OPENCLAW_GATEWAY_TOKEN, cfgFile, processEnv, tokenFile, stateDir,
                   log, SETUP_PASSWORD, runCmdCall, readyWait>>

ShutdownNext ==
    \/ wrapper.pc = "up" /\ Next
    \/ \E killThrows \in BOOLEAN : WrapperSigterm(killThrows)

ShutdownSpec == Init /\ [][ShutdownNext]_vars

\* ------------------------------------------------- waitForGatewayReady
\* waitForGatewayReady() (lines 323-345) probe by probe: the supervisor above
\* sees one polling round as one step.

timeoutMs == 20000
sleepMs == 250
endpoints == <<"/openclaw", "/openclaw", "/", "/health">>
\* what a fetch() takes beyond nothing, and a sleep() beyond its delay
Delays == {0, 10000}

\* What the gateway side does with one request: no connection ("refused"), or
\* a response with a status. An exchange is what happens to the requests that
\* one fetch() makes: the first request and, after a redirect, the next ones.
Exchanges ==
    {<<"refused">>, <<"200">>, <<"404">>, <<"500">>, <<"302">>,
     <<"302", "200">>, <<"302", "refused">>}

\* The statuses received in an exchange.
Statuses(exchange) == {exchange[i] : i \in 1..Len(exchange)} \ {"refused"}

\* fetch(url, { method: "GET" }) (line 331), redirect mode "follow": the
\* promise is fulfilled with the response of the last request, whatever its
\* status, and rejected when a request gets no response. A 302 that is last
\* in the exchange names no location and is the response.
RECURSIVE fetch(_)
fetch(exchange) ==
    IF exchange[1] = "refused" THEN "rejected"
    ELSE IF exchange[1] = "302" /\ Len(exchange) > 1 THEN fetch(Tail(exchange))
    ELSE "fulfilled"

\* The loop condition (line 328) is evaluated: the first fetch of a round
\* begins, or the function returns false (lines 343-344).
waitForGatewayReadyRound(w) ==
    IF w.elapsed < timeoutMs
    THEN [w EXCEPT !.pc = "fetch", !.endpoint = 1]
    ELSE [w EXCEPT !.pc = "done", !.endpoint = 0, !.result = "notReady"]

\* The fetch of the current endpoint settles after took milliseconds (lines
\* 330-339): the function returns true, or goes to the next endpoint, or to
\* sleep(250) after the last one.
waitForGatewayReadyFetched(w, exchange, took) ==
    LET w1 == [w EXCEPT !.elapsed = @ + took,
                        !.received = @ \cup Statuses(exchange)]
    IN IF fetch(exchange) = "fulfilled"
       THEN [w1 EXCEPT !.pc = "done", !.endpoint = 0, !.result = "ready"]
       ELSE IF w.endpoint < Len(endpoints)
       THEN [w1 EXCEPT !.endpoint = @ + 1]
       ELSE [w1 EXCEPT !.pc = "sleep", !.endpoint = 0]

ReadyInit == Init /\ cfgFile = "absent"

ReadyUnchanged ==
    UNCHANGED <<OPENCLAW_GATEWAY_TOKEN, supVars, bootVars, log, SETUP_PASSWORD, runCmdCall>>

\* waitForGatewayReady({ timeoutMs: 20_000 }) is called (line 442).
WaitCalled ==
    /\ readyWait.pc \in {"idle", "done"}
    /\ readyWait' = waitForGatewayReadyRound(NoWait)
    /\ ReadyUnchanged

\* The fetch in progress settles.
WaitFetched(exchange, took) ==
    /\ readyWait.pc = "fetch"
    /\ readyWait' = waitForGatewayReadyFetched(readyWait, exchange, took)
    /\ ReadyUnchanged

\* The timer of sleep(250) fires, late milliseconds after its delay.
WaitSlept(late) ==
    /\ readyWait.pc = "sleep"
    /\ readyWait' = waitForGatewayReadyRound([readyWait EXCEPT !.elapsed = @ + sleepMs + late])
    /\ ReadyUnchanged

ReadyNext ==
    \/ WaitCalled
    \/ \E exchange \in Exchanges, took \in Delays : WaitFetched(exchange, took)
    \/ \E late \in Delays : WaitSlept(late)

ReadySpec == ReadyInit /\ [][ReadyNext]_vars

\* ---------------------------------------------------------------- claims

\* Caller slot c makes a call of ensureGatewayRunning() in this step: a new
\* inbound call, or the call at the end of restartGateway().
EnsureStep(c) ==
    \/ Current(callers)[c].kind = "none" /\ callers'[c].kind = "ensure"
    \/ callers[c].pc = "grace" /\ callers'[c].pc # "grace"

\* Caller slot c makes a call of restartGateway() in this step.
RestartStep(c) ==
    Current(callers)[c].kind = "none" /\ callers'[c].kind = "restart"

\* A start sequence begins in this step.
BeginStep(s) == ~InFlight(seqs[s].pc) /\ InFlight(seqs'[s].pc)

\* A gateway child is spawned in this step.
SpawnStep == \E s \in SeqIds : seqs[s].pc = "sync" /\ seqs'[s].spawns > seqs[s].spawns

JoinedDone(s) == {c \in Callers : callers[c].pc = "done" /\ callers[c].joined = s}
FailsBeforeSpawn(q) ==
    q.pc = "fail" /\ q.reason \in {"notConfigured", "configUnreadable", "tokenMismatch"}

\* C1 as stated: the calls that share a start sequence are answered alike and
\* exactly one child has been spawned by the time they are answered.
C1_ExactlyOneChild ==
    \A s \in SeqIds :
        (Settled(seqs[s].pc) /\ JoinedDone(s) # {}) =>
            /\ seqs[s].spawns = 1
            /\ \A c \in JoinedDone(s) : callers[c].result = Outcome(seqs[s])

\* C1 (amended): the ensureGatewayRunning() calls made while no child is held
\* all await one start sequence; that sequence spawns exactly one child when it
\* reaches the spawn step and none when it fails before it (token verification),
\* and every call that awaited it gets the sequence's outcome: all succeed, or
\* all fail with the same failure.
C1_SingleFlight ==
    /\ Cardinality({s \in SeqIds : seqs[s].pc # "free"}) <= 1
    /\ \A c \in Callers :
          callers[c].pc = "await" =>
              /\ callers[c].joined = gatewayStarting
              /\ gatewayStarting # 0
    /\ \A s \in SeqIds :
          /\ seqs[s].spawns = (IF seqs[s].pc \in {"free", "sync"} \/ FailsBeforeSpawn(seqs[s])
                               THEN 0 ELSE 1)
          /\ Settled(seqs[s].pc) =>
                \A c \in JoinedDone(s) : callers[c].result = Outcome(seqs[s])
          /\ ~Settled(seqs[s].pc) => JoinedDone(s) = {}

\* Every caller slot holds a call that awaited one sequence, which spawned one
\* child and succeeded.
C1_Witness ==
    \E s \in SeqIds :
        /\ seqs[s].pc = "ok"
        /\ seqs[s].spawns = 1
        /\ \A c \in Callers :
              /\ callers[c].kind = "ensure"
              /\ callers[c].pc = "done"
              /\ callers[c].joined = s
              /\ callers[c].result = "ok"

\* C2: at most one start sequence is executing; a sequence begins only in a
\* step that finds gatewayStarting empty, and gatewayStarting names the
\* sequence for as long as it runs, whatever calls and child events interleave.
C2_OneStartSequence ==
    [][/\ \A s \in SeqIds : BeginStep(s) => gatewayStarting = 0
       /\ \A s, t \in SeqIds : (InFlight(seqs'[s].pc) /\ InFlight(seqs'[t].pc)) => s = t
       /\ \A s \in SeqIds : InFlight(seqs'[s].pc) => gatewayStarting' = s]_vars

\* A sequence is in its readiness wait while an ensure call awaits it, a
\* restart call is in progress and its child has already gone.
C2_Witness ==
    \E s \in SeqIds, c1, c2 \in Callers :
        /\ seqs[s].pc \in {"probe", "sleep"}
        /\ gatewayStarting = s
        /\ gatewayProc = 0
        /\ callers[c1].kind = "ensure" /\ callers[c1].pc = "await"
        /\ callers[c2].kind = "restart" /\ callers[c2].pc \in {"pkill", "grace"}

\* C3: an ensureGatewayRunning() call that arrives while a start sequence is
\* in flight is not answered with success before that sequence has settled:
\* no call returns ok without having awaited while gatewayStarting is set.
C3_AwaitsInFlight ==
    \A c \in Callers :
        (callers[c].pc = "done" /\ callers[c].result = "ok" /\ callers[c].joined = 0)
            => gatewayStarting = 0

\* C4: a sequence that finds the configuration file unreadable, unparseable or
\* with another token after the set step fails without spawning; every child
\* was spawned with the token read back from the file equal to the in-memory
\* token given on its command line.
C4_TokenMismatchAbort ==
    /\ \A k \in ProcIds :
          procs[k].state # "free" =>
              /\ procs[k].cfgRead = OPENCLAW_GATEWAY_TOKEN
              /\ procs[k].tokenArg = OPENCLAW_GATEWAY_TOKEN
    /\ \A s \in SeqIds :
          /\ (seqs[s].pc = "fail" /\ seqs[s].reason \in {"configUnreadable", "tokenMismatch"})
                => (seqs[s].spawns = 0 /\ configToken(cfgFile) # OPENCLAW_GATEWAY_TOKEN)
          /\ (seqs[s].pc \in {"ok", "probe", "sleep"} \/ (seqs[s].pc = "fail" /\ seqs[s].reason = "timeout"))
                => seqs[s].spawns = 1

\* A sequence has just failed on a token that differs, with no child spawned.
C4_Witness ==
    \E s \in SeqIds :
        /\ seqs[s].pc = "fail"
        /\ seqs[s].reason = "tokenMismatch"
        /\ cfgFile \in Tokens
        /\ seqs[s].spawns = 0
        /\ \E c \in Callers : callers[c].pc = "done" /\ callers[c].result = "tokenMismatch"

\* C5: when a start sequence fails on the readiness timeout, no held child
\* reference is left behind.
C5_TimeoutLeavesNoReference ==
    \A s \in SeqIds :
        (seqs[s].pc = "fail" /\ seqs[s].reason = "timeout") => gatewayProc = 0

\* C6 as stated: from a restartGateway() call that found a held child until
\* the end of its grace delay, no new child is spawned.
C6_NoSpawnBeforeGraceEnds ==
    [][\A c \in Callers :
          (/\ callers[c].kind = "restart"
           /\ callers[c].hadChild
           /\ callers[c].pc \in {"pkill", "grace"}
           /\ callers'[c].pc \in {"pkill", "grace"}) => ~SpawnStep]_vars

\* C6 (amended): the steps of one restartGateway() call are ordered: the call
\* signals the held child (unless kill() throws) and clears gatewayProc, then
\* its pkill command runs,
\* then its grace delay elapses, and only then does the call itself enter
\* ensureGatewayRunning(); none of its earlier steps begins a start sequence
\* or spawns. (Another caller's ensureGatewayRunning() may spawn meanwhile.)
C6_RestartOrder ==
    [][\A c \in Callers :
          /\ RestartStep(c) =>
                /\ callers'[c].pc = "pkill"
                /\ [cmd |-> "pkill", by |-> c] \in cmds'
                /\ callers'[c].hadChild = (gatewayProc # 0)
                /\ gatewayProc' = 0
                /\ gatewayProc # 0 =>
                      /\ Alive(procs'[gatewayProc])
                      /\ procs'[gatewayProc].termSent = ~callers'[c].killThrew
                /\ seqs' = CurrentSeqs(seqs)
          /\ (callers[c].pc = "pkill" /\ callers'[c].pc # "pkill") =>
                /\ callers'[c].pc = "grace"
                /\ [cmd |-> "pkill", by |-> c] \notin cmds'
                /\ seqs' = CurrentSeqs(seqs)
          /\ (callers[c].pc = "grace" /\ callers'[c].pc # "grace") =>
                callers'[c].pc \in {"await", "done"}
          /\ (callers'[c].kind = "restart" /\ callers'[c].joined # 0 /\ callers[c].pc # "await") =>
                callers[c].pc = "grace"]_vars

\* A restart call that found a held child is in its grace delay: the child was
\* signalled, the reference is empty and the pkill command has completed.
C6_Witness ==
    \E c \in Callers :
        /\ callers[c].kind = "restart"
        /\ callers[c].pc = "grace"
        /\ callers[c].hadChild
        /\ gatewayProc = 0
        /\ Alive(procs[1]) /\ procs[1].termSent
        /\ [cmd |-> "pkill", by |-> c] \notin cmds

\* C7: with no configuration file, a call of ensureGatewayRunning() returns
\* the failure "not configured" at once: no command is run, nothing is spawned,
\* no sequence begins, gatewayProc and gatewayStarting stay as they were.
C7_NotConfigured ==
    [][\A c \in Callers :
          (EnsureStep(c) /\ ~isConfigured(cfgFile)) =>
              /\ callers'[c].pc = "done"
              /\ callers'[c].result = "notConfigured"
              /\ callers'[c].joined = 0
              /\ cmds' = cmds
              /\ gatewayProc' = gatewayProc
              /\ gatewayStarting' = gatewayStarting
              /\ procs' = CurrentProcs(procs)
              /\ seqs' = CurrentSeqs(seqs)]_vars

\* A call has just returned "not configured" while a child is held.
C7_Witness ==
    \E c \in Callers :
        /\ callers[c].pc = "done"
        /\ callers[c].result = "notConfigured"
        /\ cfgFile = "absent"
        /\ gatewayProc # 0

C9_MarkerCleared ==
    /\ \A s \in SeqIds : Settled(seqs[s].pc) => gatewayStarting = 0
    /\ gatewayStarting # 0 => InFlight(seqs[gatewayStarting].pc)
    /\ \A c \in Callers :
          callers[c].pc = "await" => InFlight(seqs[callers[c].joined].pc)

\* A sequence has just failed and the marker is empty.
C9_Witness ==
    \E s \in SeqIds :
        /\ seqs[s].pc = "fail"
        /\ gatewayStarting = 0
        /\ JoinedDone(s) # {}

InProgress(c) == callers[c].kind # "none" /\ callers[c].pc # "done"

\* C10: when every command, probe and timer completes, every start sequence
\* settles, the marker is cleared again and every call of
\* ensureGatewayRunning() or restartGateway() returns: no sequence stays in
\* flight, the marker does not stay set and no call stays in progress forever.
C10_EverySequenceSettles ==
    /\ \A s \in SeqIds : []<>(~InFlight(seqs[s].pc))
    /\ []<>(gatewayStarting = 0)
    /\ \A c \in Callers : []<>(~InProgress(c))

\* A sequence has failed on the readiness timeout and a restart call that
\* awaited it has returned.
C10_Witness ==
    \E s \in SeqIds, c \in Callers :
        /\ seqs[s].pc = "fail"
        /\ seqs[s].reason = "timeout"
        /\ callers[c].kind = "restart"
        /\ callers[c].pc = "done"
        /\ callers[c].joined = s

\* C11: the in-memory token keeps the value resolved at process start, and
\* every step that spawns a child belongs to a start sequence that earlier
\* invoked "config set gateway.auth.token" with that token and whose command
\* completes in this step; the child gets the same token on its command line.
\* This holds for a first start, a restart and a start after an exit alike.
C11_TokenWrittenAtEveryStart ==
    [][/\ OPENCLAW_GATEWAY_TOKEN' = OPENCLAW_GATEWAY_TOKEN
       /\ \A s \in SeqIds :
             seqs'[s].spawns > CurrentSeqs(seqs)[s].spawns =>
                 /\ seqs[s].pc = "sync"
                 /\ seqs[s].setArg = OPENCLAW_GATEWAY_TOKEN
                 /\ [cmd |-> "configSet", by |-> s] \in cmds
                 /\ [cmd |-> "configSet", by |-> s] \notin cmds'
                 /\ procs'[1].tokenArg = OPENCLAW_GATEWAY_TOKEN]_vars

\* The sequence of a restart has spawned a child after setting the token, while
\* the child of the earlier start, signalled by the restart, is still alive.
C11_Witness ==
    \E s \in SeqIds, c \in Callers :
        /\ seqs[s].pc = "probe"
        /\ seqs[s].spawns = 1
        /\ seqs[s].setArg = OPENCLAW_GATEWAY_TOKEN
        /\ callers[c].kind = "restart" /\ callers[c].pc = "await" /\ callers[c].joined = s
        /\ Alive(procs[1]) /\ procs[1].tokenArg = OPENCLAW_GATEWAY_TOKEN
        /\ Alive(procs[2]) /\ procs[2].termSent

\* A wrapper process starts in this step.
StartStep == wrapper.pc = "down" /\ wrapper'.pc = "up"

\* C12: when the environment supplies a token that is not empty after
\* trimming, the starting wrapper resolves to that (trimmed) value whatever the
\* token file holds, and the token file is as it was: not created when absent,
\* not overwritten when present.
C12_TokenPrecedence ==
    [][(StartStep /\ envSupplied(processEnv)) =>
           /\ OPENCLAW_GATEWAY_TOKEN' = trim(processEnv.value)
           /\ wrapper'.from = "env"
           /\ tokenFile' = tokenFile]_vars

\* A wrapper is up with the token of the environment, which was padded with
\* whitespace, while the readable token file holds another token.
C12_Witness ==
    /\ wrapper = [pc |-> "up", from |-> "env"]
    /\ processEnv.set /\ processEnv.value # trim(processEnv.value)
    /\ OPENCLAW_GATEWAY_TOKEN = trim(processEnv.value)
    /\ readable(tokenFile, stateDir)
    /\ trim(tokenFile.content) # <<>>
    /\ trim(tokenFile.content) # OPENCLAW_GATEWAY_TOKEN

\* C13: a wrapper that generates a token and persists it leaves the file
\* holding exactly the token it uses; a later wrapper that starts without an
\* environment token and finds that file intact (present and readable)
\* resolves to the value in the file, generates nothing and does not rewrite
\* the file.
C13_TokenStableAcrossRestarts ==
    [][StartStep =>
           /\ (wrapper'.from = "generated" /\ stateDir = "rw") =>
                  tokenFile' = [exists |-> TRUE, content |-> OPENCLAW_GATEWAY_TOKEN',
                                writer |-> "wrapper"]
           /\ (/\ ~envSupplied(processEnv)
               /\ readable(tokenFile, stateDir)
               /\ tokenFile.writer = "wrapper") =>
                  /\ OPENCLAW_GATEWAY_TOKEN' = tokenFile.content
                  /\ wrapper'.from = "file"
                  /\ tokenFile' = tokenFile]_vars

\* A wrapper is up with the token it read from the file that an earlier
\* wrapper wrote.
C13_Witness ==
    /\ wrapper = [pc |-> "up", from |-> "file"]
    /\ ~envSupplied(processEnv)
    /\ tokenFile.exists /\ tokenFile.writer = "wrapper"
    /\ OPENCLAW_GATEWAY_TOKEN = tokenFile.content
    /\ OPENCLAW_GATEWAY_TOKEN \in Generated

\* C14: a wrapper that starts with no environment token and no non-empty
\* readable token file uses a freshly generated token, also when the token
\* file cannot be read, the state directory cannot be created or the file
\* cannot be written (the file then stays as it was); every wrapper that is up
\* has a non-empty token.
C14_TokenDespiteFsErrors ==
    [][StartStep =>
           /\ OPENCLAW_GATEWAY_TOKEN' # <<>>
           /\ (/\ ~envSupplied(processEnv)
               /\ ~(readable(tokenFile, stateDir) /\ trim(tokenFile.content) # <<>>)) =>
                  /\ OPENCLAW_GATEWAY_TOKEN' \in Generated
                  /\ wrapper'.from = "generated"
                  /\ stateDir # "rw" => tokenFile' = tokenFile]_vars

\* A wrapper is up with a generated token that is not in the token file: the
\* existing file could not be read and the new token could not be written.
C14_Witness ==
    /\ wrapper = [pc |-> "up", from |-> "generated"]
    /\ OPENCLAW_GATEWAY_TOKEN \in Generated
    /\ stateDir = "none"
    /\ tokenFile.exists
    /\ tokenFile.content # OPENCLAW_GATEWAY_TOKEN

\* C15: the step in which a start sequence gives up on the readiness timeout
\* sends no signal to any child: every child that was alive stays alive and
\* is exactly as it was.
C15_TimeoutSendsNoSignal ==
    [][\A s \in SeqIds :
          (seqs[s].pc = "sleep" /\ seqs'[s].pc = "fail") =>
              /\ seqs'[s].reason = "timeout"
              /\ procs' = CurrentProcs(procs)]_vars

\* A call has been answered with the timeout and the child that the failed
\* sequence spawned runs on, never signalled.
C15_Witness ==
    \E s \in SeqIds, c \in Callers :
        /\ seqs[s].pc = "fail" /\ seqs[s].reason = "timeout" /\ seqs[s].spawns = 1
        /\ callers[c].pc = "done" /\ callers[c].joined = s /\ callers[c].result = "timeout"
        /\ Alive(procs[1]) /\ ~procs[1].termSent
        /\ \A k \in ProcIds \ {1} : ~Alive(procs[k])

\* C16: when the child of a start sequence cannot be launched (its error
\* callback runs), the failure reaches the callers of that sequence: the
\* sequence does not settle with success and no call that awaited it is
\* answered ok.
C16_SpawnFailureSurfaced ==
    \A s \in SeqIds :
        seqs[s].launchFailed =>
            /\ seqs[s].pc # "ok"
            /\ \A c \in JoinedDone(s) : callers[c].result # "ok"

\* C17: whatever the exit code of the config-set command, the sequence goes on
\* to the read-back verification: right after the command has completed the
\* sequence has either spawned and entered its readiness wait or failed on the
\* verification, and it has spawned if and only if the configuration file
\* holds the in-memory token.
C17_SyncExitCodeIgnored ==
    \A s \in SeqIds :
        seqs[s].syncCode # {} =>
            /\ seqs[s].pc \in {"probe", "fail"}
            /\ seqs[s].pc = "fail" => seqs[s].reason \in {"configUnreadable", "tokenMismatch"}
            /\ (seqs[s].pc = "probe") = (seqs[s].spawns = 1)
            /\ (seqs[s].spawns = 1) = (configToken(cfgFile) = OPENCLAW_GATEWAY_TOKEN)

\* The config-set command has exited non-zero, the file holds the token all
\* the same, and the child has been spawned.
C17_Witness ==
    \E s \in SeqIds :
        /\ seqs[s].syncCode \in {{1}, {127}}
        /\ seqs[s].pc = "probe"
        /\ seqs[s].spawns = 1
        /\ gatewayProc = 1 /\ Alive(procs[1])

\* C18: a call of ensureGatewayRunning() that finds a configuration and a held
\* child returns success in the same step without awaiting anything: no
\* command is started, no sequence begins or advances (so no probe is issued),
\* nothing is spawned or signalled, and gatewayProc and gatewayStarting keep
\* their values.
C18_HeldChildFastPath ==
    [][\A c \in Callers :
          (EnsureStep(c) /\ isConfigured(cfgFile) /\ gatewayProc # 0) =>
              /\ callers'[c].pc = "done"
              /\ callers'[c].result = "ok"
              /\ callers'[c].joined = 0
              /\ cmds' = cmds
              /\ gatewayProc' = gatewayProc
              /\ gatewayStarting' = gatewayStarting
              /\ procs' = CurrentProcs(procs)
              /\ seqs' = CurrentSeqs(seqs)]_vars

\* An inbound call has just returned success on the held child, which is
\* alive, while no start sequence is in flight.
C18_Witness ==
    \E c \in Callers :
        /\ callers[c].kind = "ensure"
        /\ callers[c].pc = "done"
        /\ callers[c].result = "ok"
        /\ callers[c].joined = 0
        /\ gatewayProc # 0 /\ Alive(procs[gatewayProc])
        /\ gatewayStarting = 0
        /\ isConfigured(cfgFile)

\* C19: a restartGateway() call always gets to its final
\* ensureGatewayRunning(): its first step ends at the pkill command whether or
\* not kill() threw, and clears gatewayProc whenever a child was held; the
\* completion of pkill, with any exit code, starts the grace delay; the end of
\* the grace delay enters ensureGatewayRunning(); and no call stays before
\* that step forever.
C19_RestartReachesEnsure ==
    /\ [][\A c \in Callers :
             /\ RestartStep(c) =>
                   /\ callers'[c].pc = "pkill"
                   /\ gatewayProc' = 0
                   /\ callers'[c].hadChild = (gatewayProc # 0)
             /\ (callers[c].pc = "pkill" /\ callers'[c].pc # "pkill") =>
                   callers'[c].pc = "grace"
             /\ (callers[c].pc = "grace" /\ callers'[c].pc # "grace") =>
                   /\ EnsureStep(c)
                   /\ callers'[c].pc \in {"await", "done"}]_vars
    /\ \A c \in Callers : []<>(callers[c].pc \notin {"called", "pkill", "grace"})

\* The kill() of a restart call has just thrown: the call has cleared the
\* reference all the same and is at its pkill command, and the child that was
\* held runs on without a signal.
C19_Witness ==
    \E c \in Callers :
        /\ callers[c].kind = "restart"
        /\ callers[c].pc = "pkill"
        /\ callers[c].hadChild
        /\ callers[c].killThrew
        /\ [cmd |-> "pkill", by |-> c] \in cmds
        /\ gatewayProc = 0
        /\ Alive(procs[1]) /\ ~procs[1].termSent

\* C20: a request is forwarded to the gateway only when a call of
\* ensureGatewayRunning() was made for it and succeeded; a request whose call
\* failed is rejected (503, or the upgrade socket destroyed).
C20_ForwardOnlyAfterEnsure ==
    \A c \in Callers :
        /\ callers[c].reply = "forwarded" =>
              (callers[c].kind = "ensure" /\ callers[c].result = "ok")
        /\ (callers[c].kind = "ensure" /\ callers[c].pc = "done" /\ callers[c].result # "ok") =>
              callers[c].reply = "rejected"

\* The sequence part occurs in the sequence whole.
Contains(whole, part) ==
    \E i \in 1..(Len(whole) - Len(part) + 1) : SubSeq(whole, i, i + Len(part) - 1) = part

\* C22: no line logged and no diagnostic text returned during token
\* resolution, token verification and token-mismatch handling contains the
\* complete token of the wrapper: at most a truncated prefix of it. (Stated
\* for a token longer than the 16 characters that a truncated line shows.)
C22_NoFullTokenInLogs ==
    (wrapper.pc = "up" /\ Len(OPENCLAW_GATEWAY_TOKEN) > 16) =>
        \A line \in log : ~Contains(line, OPENCLAW_GATEWAY_TOKEN)

\* C23: runCmd() never fails: its promise is never rejected; once the process
\* has closed or emitted an error the promise is fulfilled with an exit code
\* and the output collected until then; a process that emitted an error gives
\* the code 127 and an output that ends with the error text, also after a
\* close event has followed.
C23_RunCmdNeverFails ==
    /\ runCmdCall.promise # "rejected"
    /\ runCmdCall.proc \in {"errored", "closed", "closedAfterError"} =>
           /\ runCmdCall.promise = "fulfilled"
           /\ runCmdCall.value.code \in 0..255
           /\ \E n \in 0..Len(runCmdCall.out) :
                  runCmdCall.value.output = SubSeq(runCmdCall.out, 1, n)
    /\ runCmdCall.proc \in {"errored", "closedAfterError"} =>
           /\ runCmdCall.value.code = 127
           /\ runCmdCall.value.output # <<>>
           /\ runCmdCall.value.output[Len(runCmdCall.value.output)] = SpawnErrorText

C28_LateExitKeepsReference ==
    [][\A k \in ProcIds :
          (/\ procs'[k].state \in {"exited", "failed"}
           /\ ~procs'[k].wasHeld
           /\ gatewayProc # 0) =>
              gatewayProc' = gatewayProc]_vars

\* C29: a restartGateway() call that has returned success leaves a held
\* reference, to a child that is alive and that no restartGateway() call has
\* signalled (a child spawned after the call began has been signalled by no
\* call that began before it).
C29_RestartSuccessHoldsNewChild ==
    \A c \in Callers :
        (callers[c].kind = "restart" /\ callers[c].pc = "done" /\ callers[c].result = "ok") =>
            /\ gatewayProc # 0
            /\ Alive(procs[gatewayProc])
            /\ ~procs[gatewayProc].termSent

\* C30: a start sequence that has settled with success has spawned a child,
\* which is held, alive and not signalled: the sequence has not succeeded on
\* the answer of some other process after its own child exited, could not be
\* launched or was terminated.
C30_SuccessMeansOwnChildReady ==
    \A s \in SeqIds :
        seqs[s].pc = "ok" =>
            /\ seqs[s].spawns = 1
            /\ ~seqs[s].launchFailed
            /\ gatewayProc = 1
            /\ Alive(procs[1])
            /\ ~procs[1].termSent

\* The request that slot c has just received carried the setup password.
Authorized(c) ==
    /\ SETUP_PASSWORD # <<>>
    /\ callers[c].authorization.scheme = "Basic"
    /\ headerPassword(callers[c].authorization) = SETUP_PASSWORD

\* C21: no HTTP request that lacks the correct setup password causes
\* restartGateway() to run: in a wrapper whose setup password is set, a
\* request in whose turn restartGateway() was called carried that password.
C21_RestartOnlyWithPassword ==
    \A c \in Callers :
        (/\ SETUP_PASSWORD # <<>>
         /\ callers[c].site = "http"
         /\ callers[c].kind = "restart") => Authorized(c)

\* C24: every HTTP request and every upgrade that is forwarded to the gateway
\* carries the Authorization header "Bearer " followed by the resolved token,
\* and the token never changes.
C24_ForwardsCarryToken ==
    [][/\ OPENCLAW_GATEWAY_TOKEN' = OPENCLAW_GATEWAY_TOKEN
       /\ \A c \in Callers :
            callers'[c].reply = "forwarded"
                => callers'[c].fwdAuth = <<"Bearer ", OPENCLAW_GATEWAY_TOKEN>>]_vars

\* An upgrade is forwarded after its await of a start sequence, and so is
\* an HTTP request, both with the bearer token.
C24_Witness ==
    /\ callers[1].via = "upgrade" /\ callers[1].reply = "forwarded"
    /\ callers[1].joined # 0
    /\ callers[1].fwdAuth = <<"Bearer ", OPENCLAW_GATEWAY_TOKEN>>
    /\ callers[2].via = "proxy" /\ callers[2].reply = "forwarded"
    /\ callers[2].fwdAuth = <<"Bearer ", OPENCLAW_GATEWAY_TOKEN>>

\* C25: while no configuration file exists, an HTTP request to a path outside
\* /setup is answered with a redirect and an upgrade is destroyed; the turn
\* spawns no child, starts no sequence and no command, and the wrapper stays up.
C25_NotConfiguredNeverFatal ==
    [][\A c \in Callers :
        (/\ ~isConfigured(cfgFile)
         /\ Sup.callers[c].kind = "none"
         /\ callers'[c].site # "none"
         /\ callers'[c].site = "http" => ~startsWith(callers'[c].path, <<"/setup">>))
        => /\ callers'[c].pc = "done"
           /\ callers'[c].reply = IF callers'[c].site = "http" THEN "redirect" ELSE "rejected"
           /\ callers'[c].fwdAuth = <<>>
           /\ procs' = Sup.procs
           /\ seqs' = Sup.seqs
           /\ cmds' = cmds
           /\ gatewayProc' = gatewayProc
           /\ gatewayStarting' = gatewayStarting
           /\ wrapper' = wrapper /\ wrapper.pc = "up"]_vars

\* Without a configuration file, an HTTP request to /chat has been redirected
\* while the onboarding command of an earlier request is running.
C25_Witness ==
    /\ ~isConfigured(cfgFile)
    /\ callers[1].pc = "onboard"
    /\ callers[2].site = "http" /\ callers[2].path = <<"/chat">>
    /\ callers[2].pc = "done" /\ callers[2].reply = "redirect"
    /\ \A k \in ProcIds : procs[k] = NoProc

\* C26: POST /setup/api/run starts the onboarding command only for a request
\* whose Basic-auth password is the setup password; when no setup password is
\* set the request is answered with status 500 and no command is started.
C26_OnboardingNeedsPassword ==
    \A c \in Callers :
        (callers[c].site = "http" /\ callers[c].path = RunPath)
        => /\ (callers[c].pc = "onboard" \/ [cmd |-> "onboard", by |-> c] \in cmds
                \/ callers[c].kind # "request")
              => Authorized(c)
           /\ SETUP_PASSWORD = <<>>
              => /\ callers[c].pc = "done" /\ callers[c].reply = "500"
                 /\ [cmd |-> "onboard", by |-> c] \notin cmds

\* The onboarding command has been started for a request that carried the
\* setup password.
C26_Witness ==
    \E c \in Callers :
        /\ callers[c].site = "http" /\ callers[c].path = RunPath
        /\ callers[c].pc = "onboard"
        /\ [cmd |-> "onboard", by |-> c] \in cmds
        /\ Authorized(c)

\* C31: the spawn of a start sequence never overwrites a held reference:
\* every child was assigned to gatewayProc while gatewayProc was empty.
C31_SpawnNeverOverwrites ==
    \A k \in ProcIds : procs[k].state # "free" => procs[k].gpBefore = 0

\* A sequence has spawned a child and holds it while the child of an earlier
\* sequence, signalled by restartGateway(), is still alive.
C31_Witness ==
    /\ gatewayProc = 1
    /\ Alive(procs[1]) /\ procs[1].gpBefore = 0
    /\ Alive(procs[2]) /\ procs[2].termSent
    /\ gatewayStarting # 0 /\ seqs[gatewayStarting].spawns = 1

\* Call c runs ensureGatewayRunning() in this step: as a new call, or as
\* the last statement of restartGateway().
RunsEnsure(c) ==
    \/ Sup.callers[c].kind = "none" /\ callers'[c].kind = "ensure"
    \/ callers[c].pc = "grace" /\ callers'[c].pc # "grace"

\* C32: the configured state is read from the file system at every call of
\* ensureGatewayRunning(): without a configuration file the call returns "not
\* configured" even though a child is held, and leaves the reference alone;
\* with a configuration file and a child held it returns success at once.
C32_ConfiguredNeverCached ==
    [][\A c \in Callers :
        RunsEnsure(c)
        => /\ ~isConfigured(cfgFile)
              => /\ callers'[c].pc = "done"
                 /\ callers'[c].result = "notConfigured"
                 /\ gatewayProc' = gatewayProc
           /\ (isConfigured(cfgFile) /\ gatewayProc # 0)
              => /\ callers'[c].pc = "done"
                 /\ callers'[c].result = "ok"
                 /\ gatewayProc' = gatewayProc]_vars

\* The configuration file has been deleted while a child is held, and a
\* call of ensureGatewayRunning() has returned "not configured".
C32_Witness ==
    /\ ~isConfigured(cfgFile)
    /\ gatewayProc = 1 /\ Alive(procs[1])
    /\ \E c \in Callers : callers[c].pc = "done" /\ callers[c].result = "notConfigured"

\* C33 (steps): restartGateway() called without a configuration file calls
\* kill("SIGTERM") on the held child and clears the reference; its last
\* statement then returns "not configured", begins no sequence and spawns
\* nothing.
C33_RestartSteps ==
    \A c \in Callers :
        /\ (/\ ~isConfigured(cfgFile)
            /\ Sup.callers[c].kind = "none"
            /\ callers'[c].kind = "restart")
           => /\ gatewayProc' = 0
              /\ gatewayProc # 0 => (procs'[1].termSent \/ callers'[c].killThrew)
        /\ (/\ ~isConfigured(cfgFile)
            /\ callers[c].pc = "grace"
            /\ callers'[c].pc # "grace")
           => /\ callers'[c].pc = "done"
              /\ callers'[c].result = "notConfigured"
              /\ seqs' = Sup.seqs
              /\ procs' = Sup.procs
              /\ cmds' = cmds
              /\ gatewayProc' = gatewayProc

\* C33 (in between): a step that begins and ends without a configuration
\* file spawns no child and leaves gatewayProc as it was, or empty.
C33_NoSpawnWithoutConfig ==
    (~isConfigured(cfgFile) /\ ~isConfigured(cfgFile'))
    => /\ gatewayProc' \in {0, gatewayProc}
       /\ \A s \in SeqIds : seqs'[s].spawns <= Sup.seqs[s].spawns

\* C33: restartGateway() on an instance whose configuration file no longer
\* exists terminates the held child, clears the reference and returns "not
\* configured" without spawning a replacement; no child becomes held while
\* the file stays away, so the supervisor is left with no gateway.
C33_RestartWithoutConfig ==
    [][C33_RestartSteps /\ C33_NoSpawnWithoutConfig]_vars

\* restartGateway(), called with a child held and no configuration file, has
\* returned "not configured": the child has its signal and no child is held.
C33_Witness ==
    /\ ~isConfigured(cfgFile)
    /\ gatewayProc = 0
    /\ Alive(procs[1]) /\ procs[1].termSent
    /\ \E c \in Callers : /\ callers[c].kind = "restart"
                           /\ callers[c].pc = "done"
                           /\ callers[c].result = "notConfigured"

\* C34: the setup reset only deletes the configuration file: it leaves
\* gatewayProc and gatewayStarting unchanged, signals no child and touches no
\* sequence, so a running gateway keeps running unconfigured.
C34_ResetOnlyDeletesConfig ==
    [][ResetSetup
       => /\ cfgFile' = "absent"
          /\ gatewayProc' = gatewayProc
          /\ gatewayStarting' = gatewayStarting
          /\ procs' = Sup.procs
          /\ seqs' = Sup.seqs
          /\ cmds' = cmds
          /\ \A c \in Callers : callers'[c].pc = Sup.callers[c].pc]_vars

\* There is no configuration file, and the child of the sequence in flight
\* is held, alive and without a signal.
C34_Witness ==
    /\ ~isConfigured(cfgFile)
    /\ gatewayProc = 1 /\ Alive(procs[1]) /\ ~procs[1].termSent
    /\ gatewayStarting # 0 /\ seqs[gatewayStarting].pc = "probe"

\* C35: readiness is decided by the receipt of a response only: the wait
\* has returned ready as soon as a probe has received an HTTP response of any
\* status, and it returns not ready only once the timeout has elapsed with no
\* probe having received a response.
C35_ReadyOnAnyResponse ==
    /\ readyWait.received # {} => (readyWait.pc = "done" /\ readyWait.result = "ready")
    /\ readyWait.result = "ready" => readyWait.received # {}
    /\ readyWait.result = "notReady"
          => (readyWait.elapsed >= timeoutMs /\ readyWait.received = {})

\* A wrapper starts with no token from the environment and a token file
\* that can be read.
StartsFromFile ==
    StartStep /\ ~envSupplied(processEnv) /\ readable(tokenFile, stateDir)

\* C39 (as stated): a token file that is empty or holds only whitespace is
\* treated as absent: without a token from the environment the wrapper
\* generates a token and overwrites the file with it; a value with whitespace
\* around it is returned trimmed.
C39_BlankFileOverwritten ==
    [][StartsFromFile =>
           /\ trim(tokenFile.content) = <<>> =>
                  /\ OPENCLAW_GATEWAY_TOKEN' \in Generated
                  /\ wrapper'.from = "generated"
                  /\ tokenFile' = [exists |-> TRUE, content |-> OPENCLAW_GATEWAY_TOKEN',
                                   writer |-> "wrapper"]
           /\ trim(tokenFile.content) # <<>> =>
                  /\ OPENCLAW_GATEWAY_TOKEN' = trim(tokenFile.content)
                  /\ wrapper'.from = "file"]_vars

\* C39 (amended): as above, but the file is overwritten when the state
\* directory can be written and stays as it was when it cannot; a file whose
\* value is used is left as it was.
C39_BlankFileTreatedAsAbsent ==
    [][StartsFromFile =>
           /\ trim(tokenFile.content) = <<>> =>
                  /\ OPENCLAW_GATEWAY_TOKEN' \in Generated
                  /\ wrapper'.from = "generated"
                  /\ stateDir = "rw" =>
                         tokenFile' = [exists |-> TRUE, content |-> OPENCLAW_GATEWAY_TOKEN',
                                       writer |-> "wrapper"]
                  /\ stateDir # "rw" => tokenFile' = tokenFile
           /\ trim(tokenFile.content) # <<>> =>
                  /\ OPENCLAW_GATEWAY_TOKEN' = trim(tokenFile.content)
                  /\ wrapper'.from = "file"
                  /\ tokenFile' = tokenFile]_vars

\* A wrapper is up with a generated token although a readable token file
\* exists: the file holds whitespace only and could not be overwritten.
C39_Witness ==
    /\ wrapper = [pc |-> "up", from |-> "generated"]
    /\ ~envSupplied(processEnv)
    /\ readable(tokenFile, stateDir)
    /\ tokenFile.content # <<>> /\ trim(tokenFile.content) = <<>>
    /\ OPENCLAW_GATEWAY_TOKEN \in Generated

\* C37: runCmd() reports exit code 0 only for a process that exited with
\* status 0: a process that a signal ended (close event with code null) is
\* not reported with code 0.
C37_SignalNotReportedAsZero ==
    (runCmdCall.promise = "fulfilled" /\ runCmdCall.value.code = 0)
        => runCmdCall.closeCode = {0}

\* C38 (as stated): at wrapper start a standard configuration file that
\* exists and is not parseable is deleted, so that the supervisor starts not
\* configured; a parseable file is left unchanged.
C38_CorruptedConfigDeleted ==
    [][StartStep =>
           /\ cfgFile = "garbage" => (cfgFile' = "absent" /\ ~isConfigured(cfgFile'))
           /\ cfgFile \in Tokens => cfgFile' = cfgFile]_vars

\* C38 (amended): the unparseable file is deleted when the wrapper sees it
\* and can remove it, and stays as it was otherwise; a parseable file is left
\* unchanged; no child, sequence or command exists at that point.
C38_CorruptedConfigDeletedIfRemovable ==
    [][StartStep =>
           /\ (cfgFile = "garbage" /\ stateDir = "rw")
                 => (cfgFile' = "absent" /\ ~isConfigured(cfgFile'))
           /\ (cfgFile = "garbage" /\ stateDir # "rw") => cfgFile' = cfgFile
           /\ cfgFile \notin {"garbage"} => cfgFile' = cfgFile
           /\ gatewayProc' = 0 /\ gatewayStarting' = 0 /\ cmds' = {}
           /\ \A k \in ProcIds : procs'[k] = NoProc]_vars

\* A wrapper is up with the unparseable configuration file still in place,
\* in a state directory that it can read but not write.
C38_Witness ==
    /\ wrapper.pc = "up"
    /\ cfgFile = "garbage"
    /\ stateDir = "ro"

\* C36: when the wrapper exits on SIGTERM, kill("SIGTERM") has been called on
\* the child it held, if any: the child has the signal unless the call threw,
\* and the wrapper exits in both cases; nothing else is touched.
C36_ShutdownSignalsHeldChild ==
    [][(wrapper.pc = "up" /\ wrapper'.pc = "down")
       => /\ gatewayProc # 0
             => /\ procs'[gatewayProc].termSent \/ wrapper'.from = "SIGTERM, kill threw"
                /\ procs'[gatewayProc].state = "alive"
          /\ \A k \in ProcIds : k # gatewayProc => procs'[k] = Sup.procs[k]
          /\ cmds' = cmds]_vars

\* The wrapper has exited on SIGTERM while a start sequence was in flight:
\* the child it held has the signal.
C36_Witness ==
    /\ wrapper = [pc |-> "down", from |-> "SIGTERM"]
    /\ gatewayProc = 1 /\ Alive(procs[1]) /\ procs[1].termSent
    /\ gatewayStarting # 0

====
